---- MODULE Spec2Model ----
(***************************************************************************)
(* Model of the Telegram trade bot: the confirmation / execution           *)
(* orchestrator of bot.ts (pending signals, callback handlers, order       *)
(* submission through trader.ts and bitunix.ts), the signal parser and the *)
(* deeplink encoding of encoding.ts.                                       *)
(***************************************************************************)
EXTENDS Integers, Sequences, FiniteSets, Bags, TLC

VARIABLES
  pendingSignals,  \* bot.ts:12    Map<number, TradeSignal>, as a set of [key, value] entries
  userStore,       \* types.ts:104 the user store on disk: userId -> None or Some(UserData)
  handlers,        \* the callback_query handlers that are waiting at an await (a bag)
  links,           \* the signals for which a "Place Trade" deeplink was posted in a group
  message,         \* parser: the text handed to parseTradeSignal
  parsed,          \* parser: None before the call, Some(result) after it
  token,           \* deeplink: None, or Some(token) once the parsed signal is encoded
  decoded,         \* deeplink: None, or Some(result) once the token is decoded
  reply,           \* None, or Some([riskReward, text]): the risk/reward in the last reply
  request,         \* trader: None, or Some([signal, options]) while executeTrade runs
  submitted,       \* trader: None, or Some(orderParams) once handed to placeOrder
  response,        \* trader: None, or Some(how the promise of placeOrder settled)
  returned,        \* trader: None, or Some(how the promise of executeTrade settled)
  registrationStates, \* bot.ts:15 Map<number, RegistrationState>: userId -> None or Some(state)
  texts            \* the text handlers of a registration that wait at deleteMessage (a bag)

vars == <<pendingSignals, userStore, handlers, links, message, parsed, token, decoded, reply,
         request, submitted, response, returned, registrationStates, texts>>

botVars == <<pendingSignals, userStore, handlers, links>>

parserVars == <<message, parsed, token, decoded, reply>>

traderVars == <<request, submitted, response, returned>>

registerVars == <<registrationStates, texts>>

(***************************************************************************)
(* Optional values: undefined / null is <<>>, a present value v is <<v>>.  *)
(***************************************************************************)
None == <<>>

Some(v) == <<v>>

IsSome(o) == o # <<>>

Get(o) == o[1]

(***************************************************************************)
(* JavaScript strings are sequences of one-character strings.              *)
(***************************************************************************)
LowerSeq == <<"a","b","c","d","e","f","g","h","i","j","k","l","m",
              "n","o","p","q","r","s","t","u","v","w","x","y","z">>

UpperSeq == <<"A","B","C","D","E","F","G","H","I","J","K","L","M",
              "N","O","P","Q","R","S","T","U","V","W","X","Y","Z">>

DigitSeq == <<"0","1","2","3","4","5","6","7","8","9">>

Range(f) == {f[i] : i \in DOMAIN f}

LowerSet == Range(LowerSeq)

UpperSet == Range(UpperSeq)

LetterSet == LowerSet \cup UpperSet

DigitSet == Range(DigitSeq)

\* \w of a JavaScript regular expression
WordSet == LetterSet \cup DigitSet \cup {"_"}

\* \s of a JavaScript regular expression (the members that occur in chat text)
SpaceSet == {" ", "\n", "\t"}

UpperOf == [c \in LowerSet |-> UpperSeq[CHOOSE i \in DOMAIN LowerSeq : LowerSeq[i] = c]]

DigitOf == [c \in DigitSet |-> (CHOOSE i \in DOMAIN DigitSeq : DigitSeq[i] = c) - 1]

\* String.prototype.toUpperCase, one character
UpperChar(c) == IF c \in LowerSet THEN UpperOf[c] ELSE c

\* String.prototype.toUpperCase
toUpperCase(str) == [i \in 1..Len(str) |-> UpperChar(str[i])]

\* the characters of str from position a to position b, both included
Slice(str, a, b) == [i \in 1..(b - a + 1) |-> str[a + i - 1]]

\* String.prototype.endsWith
endsWith(str, suffix) ==
  /\ Len(str) >= Len(suffix)
  /\ Slice(str, Len(str) - Len(suffix) + 1, Len(str)) = suffix

\* String.prototype.split(sep) for a one-character separator: piece k lies
\* between separator k - 1 and separator k
split(str, sep) ==
  LET seps   == {i \in 1..Len(str) : str[i] = sep}
      at(k)  == IF k = 0 THEN 0
                ELSE IF k > Cardinality(seps) THEN Len(str) + 1
                ELSE CHOOSE p \in seps : Cardinality({q \in seps : q < p}) = k - 1
  IN  [k \in 1..(Cardinality(seps) + 1) |-> Slice(str, at(k - 1) + 1, at(k) - 1)]

\* String.prototype.trim
trim(str) ==
  LET keep == {i \in 1..Len(str) : str[i] \notin SpaceSet}
  IN  IF keep = {} THEN <<>>
      ELSE LET lo == CHOOSE i \in keep : \A j \in keep : i <= j
               hi == CHOOSE i \in keep : \A j \in keep : i >= j
           IN  Slice(str, lo, hi)

(***************************************************************************)
(* Regular expressions, matched the way JavaScript matches them: leftmost  *)
(* start, alternatives in order, greedy repetition with backtracking.      *)
(* MatchK(k, text, i, caps) matches the sequence of nodes k (the node at   *)
(* hand followed by the rest of the pattern) at position i and returns the *)
(* first way the backtracking matcher finds, or None.  All patterns of the *)
(* parser carry the i flag, so literals are compared ignoring case.        *)
(***************************************************************************)
Unbounded == -1

\* one character of a class
Chr(set) == [t |-> "set", s |-> set]

\* a literal word
Lit(chars) == [t |-> "lit", s |-> chars]

\* a concatenation
Cat(xs) == [t |-> "cat", xs |-> xs]

\* a | b | ...
Alt(xs) == [t |-> "alt", xs |-> xs]

\* a class repeated {min,max}, greedy
Rep(r, min, max) == [t |-> "rep", s |-> r.s, min |-> min, max |-> max]

Star(r) == Rep(r, 0, Unbounded)

Plus(r) == Rep(r, 1, Unbounded)

\* r?
Opt(r) == [t |-> "opt", r |-> r]

\* capture group n
Grp(n, r) == [t |-> "grp", n |-> n, r |-> r]

\* the end of capture group n that started at position `from`
EndGrp(n, from) == [t |-> "end", n |-> n, from |-> from]

\* ^ (no m flag)
Bol == [t |-> "bol"]

\* \b
WordBoundary == [t |-> "wb"]

IsWordAt(text, i) == i >= 1 /\ i <= Len(text) /\ text[i] \in WordSet

LitAt(text, i, chars) ==
  /\ i + Len(chars) - 1 <= Len(text)
  /\ \A k \in 1..Len(chars) : UpperChar(text[i + k - 1]) = UpperChar(chars[k])

\* the position after the longest run of characters of `set` from i on
RunEnd(text, i, set) ==
  LET stops == {j \in i..Len(text) : text[j] \notin set}
  IN  IF stops = {} THEN Len(text) + 1
      ELSE CHOOSE j \in stops : \A q \in stops : j <= q

RECURSIVE MatchK(_, _, _, _)
RECURSIVE MatchAlt(_, _, _, _, _, _)

MatchK(k, text, i, caps) ==
  IF k = <<>> THEN Some([pos |-> i, caps |-> caps])
  ELSE
  LET r    == Head(k)
      rest == Tail(k)
  IN  CASE r.t = "set" ->
             IF i <= Len(text) /\ text[i] \in r.s
             THEN MatchK(rest, text, i + 1, caps) ELSE None
        [] r.t = "lit" ->
             IF LitAt(text, i, r.s)
             THEN MatchK(rest, text, i + Len(r.s), caps) ELSE None
        [] r.t = "cat" -> MatchK(r.xs \o rest, text, i, caps)
        [] r.t = "alt" -> MatchAlt(r.xs, 1, rest, text, i, caps)
        [] r.t = "rep" ->
             \* greedy: the longest run first, then one character less, ...
             LET run  == RunEnd(text, i, r.s) - i
                 most == IF r.max # Unbounded /\ run > r.max THEN r.max ELSE run
                 ok   == {n \in r.min..most : IsSome(MatchK(rest, text, i + n, caps))}
             IN  IF ok = {} THEN None
                 ELSE MatchK(rest, text, i + (CHOOSE n \in ok : \A q \in ok : n >= q), caps)
        [] r.t = "opt" ->
             LET with == MatchK(<<r.r>> \o rest, text, i, caps)
             IN  IF IsSome(with) THEN with ELSE MatchK(rest, text, i, caps)
        [] r.t = "grp" -> MatchK(<<r.r, EndGrp(r.n, i)>> \o rest, text, i, caps)
        [] r.t = "end" ->
             MatchK(rest, text, i, [caps EXCEPT ![r.n] = Some(Slice(text, r.from, i - 1))])
        [] r.t = "bol" -> IF i = 1 THEN MatchK(rest, text, i, caps) ELSE None
        [] r.t = "wb" ->
             IF IsWordAt(text, i - 1) # IsWordAt(text, i)
             THEN MatchK(rest, text, i, caps) ELSE None

\* the alternatives xs[j], xs[j + 1], ... in order, each followed by `rest`
MatchAlt(xs, j, rest, text, i, caps) ==
  IF j > Len(xs) THEN None
  ELSE LET m == MatchK(<<xs[j]>> \o rest, text, i, caps)
       IN  IF IsSome(m) THEN m ELSE MatchAlt(xs, j + 1, rest, text, i, caps)

NoCaps(n) == [k \in 1..n |-> None]

\* the leftmost of the tries that matched, as exec returns it: the index,
\* the position after the match, and the capture groups
LeftmostMatch(tries) ==
  LET hits == {t \in tries : IsSome(t.m)}
  IN  IF hits = {} THEN None
      ELSE LET t == CHOOSE h \in hits : \A q \in hits : h.index <= q.index
           IN  Some([index |-> t.index, end |-> Get(t.m).pos, caps |-> Get(t.m).caps])

\* RegExp.prototype.exec from position `from` on: None, or the leftmost
\* match, for a pattern with n capture groups
ExecFrom(r, n, text, from) ==
  LeftmostMatch({[index |-> i, m |-> MatchK(<<r>>, text, i, NoCaps(n))] :
                   i \in from..(Len(text) + 1)})

\* String.prototype.match for a pattern without the g flag
match(text, r, n) == ExecFrom(r, n, text, 1)

\* RegExp.prototype.test
test(r, text) == IsSome(ExecFrom(r, 0, text, 1))

RECURSIVE MatchAllFrom(_, _, _, _)
RECURSIVE MatchesAfter(_, _, _, _)
\* String.prototype.matchAll for a pattern with the g flag: the matches
\* from position i on, each search starting where the last match ended
MatchAllFrom(r, n, text, i) == MatchesAfter(r, n, text, ExecFrom(r, n, text, i))

\* the match m (None when the search failed) and the matches after it
MatchesAfter(r, n, text, m) ==
  IF ~IsSome(m) THEN <<>>
  ELSE <<Get(m)>> \o
       MatchAllFrom(r, n, text, IF Get(m).end > Get(m).index THEN Get(m).end
                                ELSE Get(m).end + 1)

matchAll(text, r, n) == MatchAllFrom(r, n, text, 1)

(***************************************************************************)
(* JavaScript numbers that come out of decimal text: the value m / 10^e,   *)
(* kept normalised (no trailing zero in the fraction), and NaN.            *)
(***************************************************************************)
NaN == [m |-> 0, e |-> -1]

IsNaN(x) == x.e < 0

RECURSIVE Normalise(_, _)
Normalise(m, e) ==
  IF m = 0 THEN [m |-> 0, e |-> 0]
  ELSE IF e > 0 /\ m % 10 = 0 THEN Normalise(m \div 10, e - 1)
  ELSE [m |-> m, e |-> e]

Dec(n) == [m |-> n, e |-> 0]

RECURSIVE Pow10(_)
Pow10(k) == IF k <= 0 THEN 1 ELSE 10 * Pow10(k - 1)

\* the sign of a - b for two numbers that are not NaN
Cmp(a, b) ==
  LET x == a.m * Pow10(b.e)
      y == b.m * Pow10(a.e)
  IN  IF x < y THEN -1 ELSE IF x > y THEN 1 ELSE 0

\* a < b, a <= b, a > b, a >= b of JavaScript: false when either side is NaN
JsLt(a, b) == ~IsNaN(a) /\ ~IsNaN(b) /\ Cmp(a, b) < 0

JsLe(a, b) == ~IsNaN(a) /\ ~IsNaN(b) /\ Cmp(a, b) <= 0

JsGt(a, b) == JsLt(b, a)

JsGe(a, b) == JsLe(b, a)

\* the truthiness of a number: false for 0 and NaN
Truthy(x) == ~IsNaN(x) /\ x.m # 0

\* the truthiness of `number | null` (and of `number | undefined`)
TruthyOpt(o) == IsSome(o) /\ Truthy(Get(o))

RECURSIVE DigitsValue(_, _, _)
\* the value of the digits str[i..j], read after the digits worth acc
DigitsValue(str, i, acc) ==
  IF i > Len(str) THEN acc ELSE DigitsValue(str, i + 1, acc * 10 + DigitOf[str[i]])

\* the position after the run of digits that starts at i
DigitRunEnd(str, i) == RunEnd(str, i, DigitSet)

\* the position of the first character from i on that is not white space
SkipSpace(str, i) == RunEnd(str, i, SpaceSet)

\* str has one of `signs` at position i
HasSign(str, i, signs) == i <= Len(str) /\ str[i] \in signs

\* x, negated when neg
Negated(neg, x) == IF neg /\ ~IsNaN(x) THEN [x EXCEPT !.m = -x.m] ELSE x

\* the number whose integer digits are str[s1..iEnd - 1] and whose
\* fraction digits are str[iEnd + 1..fEnd - 1]; NaN when there is no digit
FloatOfDigits(str, s1, iEnd, fEnd) ==
  IF iEnd = s1 /\ fEnd <= iEnd + 1 THEN NaN
  ELSE IF fEnd <= iEnd + 1 THEN Dec(DigitsValue(Slice(str, s1, iEnd - 1), 1, 0))
  ELSE Normalise(DigitsValue(Slice(str, s1, iEnd - 1), 1, 0) * Pow10(fEnd - (iEnd + 1))
                   + DigitsValue(Slice(str, iEnd + 1, fEnd - 1), 1, 0),
                 fEnd - (iEnd + 1))

\* the longest prefix of str from s1 on of the form digits [. digits] or
\* . digits, whose integer digits end before iEnd
FloatAfterInt(str, s1, iEnd) ==
  FloatOfDigits(str, s1, iEnd,
                IF HasSign(str, iEnd, {"."}) THEN DigitRunEnd(str, iEnd + 1) ELSE iEnd)

\* parseFloat from s0 on, the position of the first character that is
\* not white space: an optional sign, then the number
FloatFrom(str, s0) ==
  Negated(HasSign(str, s0, {"-"}),
          FloatAfterInt(str, IF HasSign(str, s0, {"-", "+"}) THEN s0 + 1 ELSE s0,
                        DigitRunEnd(str, IF HasSign(str, s0, {"-", "+"}) THEN s0 + 1 ELSE s0)))

\* parseFloat: leading white space, an optional sign, then the longest
\* prefix of the form digits [. digits] or . digits; NaN when there is none
parseFloat(str) == FloatFrom(str, SkipSpace(str, 1))

\* the integer whose digits are str[s1..iEnd - 1]; NaN when there is none
IntOfDigits(str, s1, iEnd) ==
  IF iEnd = s1 THEN NaN ELSE Dec(DigitsValue(Slice(str, s1, iEnd - 1), 1, 0))

IntFrom(str, s0) ==
  Negated(HasSign(str, s0, {"-"}),
          IntOfDigits(str, IF HasSign(str, s0, {"-", "+"}) THEN s0 + 1 ELSE s0,
                      DigitRunEnd(str, IF HasSign(str, s0, {"-", "+"}) THEN s0 + 1 ELSE s0)))

\* parseInt(str, 10): leading white space, an optional sign, then digits
parseInt(str) == IntFrom(str, SkipSpace(str, 1))

\* a number text whose thousands separators are left in
KeepCommas(str) == str

\* str.replace(/,/g, '')
RemoveCommas(str) == SelectSeq(str, LAMBDA c : c # ",")

\* parser.ts parseNumber
parseNumber(str) == parseFloat(RemoveCommas(str))

\* Array.prototype.includes for numbers (SameValueZero: NaN is found)
includes(arr, x) == \E i \in 1..Len(arr) : arr[i] = x

\* the comparator (a, b) => side === 'LONG' ? a - b : b - a, as the sort
\* reads it: the sign of the difference, and 0 when the difference is NaN
SideCompare(side, a, b) ==
  IF IsNaN(a) \/ IsNaN(b) THEN 0
  ELSE IF side = "LONG" THEN Cmp(a, b) ELSE Cmp(b, a)

RECURSIVE InsertSorted(_, _, _)
\* x put into the sorted array `arr` after every element that does not
\* compare greater than it (the sort is stable)
InsertSorted(side, arr, x) ==
  IF arr = <<>> THEN <<x>>
  ELSE IF SideCompare(side, Head(arr), x) > 0 THEN <<x>> \o arr
  ELSE <<Head(arr)>> \o InsertSorted(side, Tail(arr), x)

RECURSIVE SortFrom(_, _, _)
SortFrom(side, arr, done) ==
  IF arr = <<>> THEN done
  ELSE SortFrom(side, Tail(arr), InsertSorted(side, done, Head(arr)))

\* Array.prototype.sort with the comparator of the parser
sortTPs(side, arr) == SortFrom(side, arr, <<>>)

(***************************************************************************)
(* The words of the parser's patterns, as character sequences.             *)
(***************************************************************************)
W ==
  [LONG     |-> <<"L","O","N","G">>,
   SHORT    |-> <<"S","H","O","R","T">>,
   BUY      |-> <<"B","U","Y">>,
   SELL     |-> <<"S","E","L","L">>,
   USDT     |-> <<"U","S","D","T">>,
   USD      |-> <<"U","S","D">>,
   PERP     |-> <<"P","E","R","P">>,
   leverage |-> <<"l","e","v","e","r","a","g","e">>,
   entry    |-> <<"e","n","t","r","y">>,
   enter    |-> <<"e","n","t","e","r">>,
   price    |-> <<"p","r","i","c","e">>,
   stop     |-> <<"s","t","o","p">>,
   loss     |-> <<"l","o","s","s">>,
   sl       |-> <<"s","l">>,
   take     |-> <<"t","a","k","e">>,
   profit   |-> <<"p","r","o","f","i","t">>,
   tp       |-> <<"t","p">>,
   target   |-> <<"t","a","r","g","e","t">>,
   lev      |-> <<"l","e","v">>,
   BTCUSDT  |-> <<"B","T","C","U","S","D","T">>,
   ETHUSDT  |-> <<"E","T","H","U","S","D","T">>]

(***************************************************************************)
(* The patterns of encoding.ts.                                              *)
(***************************************************************************)
Digit == Chr(DigitSet)

Space == Chr(SpaceSet)

\* [\d,]+\.?\d*
NumberToken == Cat(<<Plus(Chr(DigitSet \cup {","})), Opt(Chr({"."})), Star(Digit)>>)

\* [:\s]*
ColonsAndSpaces == Star(Chr({":"} \cup SpaceSet))

\* a header that takes any word for the side
HeaderPatternAnyWord ==
  Cat(<<Bol, Grp(1, Rep(Chr(LetterSet), 2, 10)), Plus(Space),
        Grp(2, Plus(Chr(LetterSet)))>>)

\* /^([A-Z]{2,10})\s+(LONG|SHORT)/i
HeaderPattern ==
  Cat(<<Bol, Grp(1, Rep(Chr(LetterSet), 2, 10)), Plus(Space),
        Grp(2, Alt(<<Lit(W.LONG), Lit(W.SHORT)>>))>>)

\* /leverage/i
LeverageLinePattern == Lit(W.leverage)

\* /(\d+)(?:\s*-\s*\d+)?x?/i
LeverageValuePattern ==
  Cat(<<Grp(1, Plus(Digit)),
        Opt(Cat(<<Star(Space), Chr({"-"}), Star(Space), Plus(Digit)>>)),
        Opt(Lit(<<"x">>))>>)

\* /entry/i
EntryLinePattern == Lit(W.entry)

\* /entry[:\s]*([\d,]+\.?\d*)/i
EntryValuePattern == Cat(<<Lit(W.entry), ColonsAndSpaces, Grp(1, NumberToken)>>)

\* /stop\s*loss/i
StopLossLinePattern == Cat(<<Lit(W.stop), Star(Space), Lit(W.loss)>>)

\* /stop\s*loss[:\s]*([\d,]+\.?\d*)/i
StopLossValuePattern ==
  Cat(<<Lit(W.stop), Star(Space), Lit(W.loss), ColonsAndSpaces, Grp(1, NumberToken)>>)

\* /take\s*profit/i
TakeProfitLinePattern == Cat(<<Lit(W.take), Star(Space), Lit(W.profit)>>)

\* /take\s*profit[:\s]*([\d,]+\.?\d*)\s*-\s*([\d,]+\.?\d*)/i
TakeProfitRangePattern ==
  Cat(<<Lit(W.take), Star(Space), Lit(W.profit), ColonsAndSpaces, Grp(1, NumberToken),
        Star(Space), Chr({"-"}), Star(Space), Grp(2, NumberToken)>>)

\* /take\s*profit[:\s]*([\d,]+\.?\d*)/i
TakeProfitSinglePattern ==
  Cat(<<Lit(W.take), Star(Space), Lit(W.profit), ColonsAndSpaces, Grp(1, NumberToken)>>)

\* /\b([A-Z]{2,10})(USDT|USD|PERP)?\b/i
SymbolPattern ==
  Cat(<<WordBoundary, Grp(1, Rep(Chr(LetterSet), 2, 10)),
        Opt(Grp(2, Alt(<<Lit(W.USDT), Lit(W.USD), Lit(W.PERP)>>))), WordBoundary>>)

\* /\b(LONG|SHORT|BUY|SELL)\b/i
SidePattern ==
  Cat(<<WordBoundary, Grp(1, Alt(<<Lit(W.LONG), Lit(W.SHORT), Lit(W.BUY), Lit(W.SELL)>>)),
        WordBoundary>>)

\* /(?:entry|@|price|enter)[:\s]*([\d,]+\.?\d*)/i
GenericEntryPattern ==
  Cat(<<Alt(<<Lit(W.entry), Chr({"@"}), Lit(W.price), Lit(W.enter)>>),
        ColonsAndSpaces, Grp(1, NumberToken)>>)

\* /(?:tp|take\s*profit|target)\s*\d*[:\s]*([\d,]+\.?\d*)/gi
GenericTakeProfitPattern ==
  Cat(<<Alt(<<Lit(W.tp), Cat(<<Lit(W.take), Star(Space), Lit(W.profit)>>), Lit(W.target)>>),
        Star(Space), Star(Digit), ColonsAndSpaces, Grp(1, NumberToken)>>)

\* /(?:sl|stop\s*loss|stop)[:\s]*([\d,]+\.?\d*)/i
GenericStopLossPattern ==
  Cat(<<Alt(<<Lit(W.sl), Cat(<<Lit(W.stop), Star(Space), Lit(W.loss)>>), Lit(W.stop)>>),
        ColonsAndSpaces, Grp(1, NumberToken)>>)

\* /(?:lev|leverage)[:\s]*(\d+)/i
GenericLeveragePattern ==
  Cat(<<Alt(<<Lit(W.lev), Lit(W.leverage)>>), ColonsAndSpaces, Grp(1, Plus(Digit))>>)

(***************************************************************************)
(* parser.ts.  A TradeSignal is a record of symbol, side, entryPrice,      *)
(* takeProfits, stopLoss and leverage (None when undefined); positionSize  *)
(* is set nowhere in the program and raw is read nowhere, so they are left *)
(* out.  The parser returns None for null.                                 *)
(***************************************************************************)
TradeSignal(symbol, side, entryPrice, takeProfits, stopLoss, leverage) ==
  [symbol |-> symbol, side |-> side, entryPrice |-> entryPrice,
   takeProfits |-> takeProfits, stopLoss |-> stopLoss, leverage |-> leverage]

\* the first of lines whose index is in hits
FirstLine(lines, hits) ==
  IF hits = {} THEN None
  ELSE Some(lines[CHOOSE i \in hits : \A j \in hits : i <= j])

\* lines.find(l => pattern.test(l))
FindLine(lines, pattern) ==
  FirstLine(lines, {i \in 1..Len(lines) : test(pattern, lines[i])})

\* the capture group g of a match as a number, None when there is no match
CapturedNumber(m, g) == IF IsSome(m) THEN Some(parseNumber(Get(Get(m).caps[g]))) ELSE None

\* the capture group g of a match read by parseInt, None when there is no match
CapturedInt(m, g) == IF IsSome(m) THEN Some(parseInt(Get(Get(m).caps[g]))) ELSE None

\* a suffix policy that appends without looking at the symbol
AlwaysSuffixed(symbol) == symbol \o W.USDT

\* if (!symbol.endsWith('USDT')) symbol += 'USDT'
WithQuoteSuffix(symbol) == IF endsWith(symbol, W.USDT) THEN symbol ELSE symbol \o W.USDT

\* if (tp > 0 && !takeProfits.includes(tp)) takeProfits.push(tp)
PushTakeProfit(takeProfits, tp) ==
  IF JsGt(tp, Dec(0)) /\ ~includes(takeProfits, tp) THEN Append(takeProfits, tp)
  ELSE takeProfits

\* the take-profits the generic parser keeps out of the matches of its
\* pattern: each value that is > 0 and not yet in the list
RECURSIVE CollectTakeProfits(_, _, _)
CollectTakeProfits(ms, k, acc) ==
  IF k > Len(ms) THEN acc
  ELSE CollectTakeProfits(ms, k + 1, PushTakeProfit(acc, parseNumber(Get(ms[k].caps[1]))))

\* sideRaw === 'BUY' || sideRaw === 'LONG' ? 'LONG' : 'SHORT'
GenericSide(sideRaw) == IF sideRaw = W.BUY \/ sideRaw = W.LONG THEN "LONG" ELSE "SHORT"

\* the checks and the result of parseTradeSignalGeneric, given its matches
GenericSignal(symbolMatch, sideMatch, entryPrice, takeProfits, stopLoss, leverage) ==
  IF ~IsSome(symbolMatch) THEN None
  ELSE IF ~IsSome(sideMatch) THEN None
  ELSE IF ~TruthyOpt(entryPrice) \/ takeProfits = <<>> \/ ~TruthyOpt(stopLoss) THEN None
  ELSE Some(TradeSignal(WithQuoteSuffix(Get(Get(symbolMatch).caps[1])),
                        GenericSide(toUpperCase(Get(Get(sideMatch).caps[1]))),
                        Get(entryPrice),
                        sortTPs(GenericSide(toUpperCase(Get(Get(sideMatch).caps[1]))),
                                takeProfits),
                        Get(stopLoss), leverage))

parseTradeSignalGeneric(msg) ==
  GenericSignal(match(toUpperCase(msg), SymbolPattern, 2),
                match(toUpperCase(msg), SidePattern, 1),
                CapturedNumber(match(msg, GenericEntryPattern, 1), 1),
                CollectTakeProfits(matchAll(msg, GenericTakeProfitPattern, 1), 1, <<>>),
                CapturedNumber(match(msg, GenericStopLossPattern, 1), 1),
                CapturedInt(match(msg, GenericLeveragePattern, 1), 1))

\* message.split('\n').map(l => l.trim()).filter(l => l)
LinesOf(msg) ==
  LET raw == split(msg, "\n")
  IN  SelectSeq([i \in 1..Len(raw) |-> trim(raw[i])], LAMBDA l : l # <<>>)

\* both ends of the range when the range pattern matched, else the single
\* value when the single pattern matched, whatever number they parse to
RangeOrSingle(range, single) ==
  IF IsSome(range)
  THEN <<parseNumber(Get(Get(range).caps[1])), parseNumber(Get(Get(range).caps[2]))>>
  ELSE IF IsSome(single) THEN <<parseNumber(Get(Get(single).caps[1]))>>
  ELSE <<>>

\* the take-profits written on the take-profit line
TakeProfitsOnLine(tpLine) ==
  IF ~IsSome(tpLine) THEN <<>>
  ELSE RangeOrSingle(match(Get(tpLine), TakeProfitRangePattern, 2),
                     match(Get(tpLine), TakeProfitSinglePattern, 1))

\* the take-profit list of the structured parser
StructuredTakeProfits(lines) == TakeProfitsOnLine(FindLine(lines, TakeProfitLinePattern))

\* the value after the label on a line
NumberOnLine(line, valuePattern) ==
  IF IsSome(line) THEN CapturedNumber(match(Get(line), valuePattern, 1), 1) ELSE None

\* the value after the label on the first line that holds the label
LabelledNumber(lines, linePattern, valuePattern) ==
  NumberOnLine(FindLine(lines, linePattern), valuePattern)

LeverageOnLine(line) ==
  IF IsSome(line) THEN CapturedInt(match(Get(line), LeverageValuePattern, 1), 1) ELSE None

StructuredLeverage(lines) == LeverageOnLine(FindLine(lines, LeverageLinePattern))

\* headerMatch[2].toUpperCase() === 'LONG' ? 'LONG' : 'SHORT'
HeaderSide(word) == IF toUpperCase(word) = W.LONG THEN "LONG" ELSE "SHORT"

\* a parseTradeSignal that asks the generic parser whenever the header
\* matched, whatever the labelled lines gave
StructuredSignalAlwaysGeneric(msg, headerMatch, leverage, entryPrice, stopLoss, takeProfits) ==
  IF ~IsSome(headerMatch) THEN None ELSE parseTradeSignalGeneric(msg)

\* the checks and the result of parseTradeSignal, given what it extracted
StructuredSignal(msg, headerMatch, leverage, entryPrice, stopLoss, takeProfits) ==
  IF ~IsSome(headerMatch) THEN None
  ELSE IF ~TruthyOpt(entryPrice) \/ takeProfits = <<>> \/ ~TruthyOpt(stopLoss)
       THEN parseTradeSignalGeneric(msg)
  ELSE Some(TradeSignal(WithQuoteSuffix(toUpperCase(Get(Get(headerMatch).caps[1]))),
                        HeaderSide(Get(Get(headerMatch).caps[2])),
                        Get(entryPrice),
                        sortTPs(HeaderSide(Get(Get(headerMatch).caps[2])), takeProfits),
                        Get(stopLoss), leverage))

\* lines[0], the empty string when there is no line
HeaderLine(lines) == IF lines = <<>> THEN <<>> ELSE lines[1]

\* the extraction of parseTradeSignal from the lines of the message
ParseLines(msg, lines) ==
  StructuredSignal(msg,
                   match(HeaderLine(lines), HeaderPattern, 2),
                   StructuredLeverage(lines),
                   LabelledNumber(lines, EntryLinePattern, EntryValuePattern),
                   LabelledNumber(lines, StopLossLinePattern, StopLossValuePattern),
                   StructuredTakeProfits(lines))

parseTradeSignal(msg) == ParseLines(msg, LinesOf(msg))

(***************************************************************************)
(* encoding.ts: the deeplink token of a signal.  The payload               *)
(* symbol|side|entry|tp1,tp2,...|sl|leverage is written with               *)
(* Number.prototype.toString and carried as base64url without padding.     *)
(***************************************************************************)
RECURSIVE NatToString(_)
\* the decimal digits of a natural number
NatToString(n) ==
  IF n < 10 THEN <<DigitSeq[n + 1]>>
  ELSE Append(NatToString(n \div 10), DigitSeq[(n % 10) + 1])

\* digits, with zeros in front up to the width
ZeroPadded(digits, width) == [i \in 1..(width - Len(digits)) |-> "0"] \o digits

\* the text of the magnitude m / 10^e (e > 0 means a fraction of e digits)
MagnitudeToString(m, e) ==
  IF e = 0 THEN NatToString(m)
  ELSE NatToString(m \div Pow10(e)) \o <<".">> \o ZeroPadded(NatToString(m % Pow10(e)), e)

\* Number.prototype.toString, for the numbers written in plain decimal
\* notation (magnitudes from 1e-6 up to 1e21) and NaN
toString(x) ==
  IF IsNaN(x) THEN <<"N","a","N">>
  ELSE IF x.m < 0 THEN <<"-">> \o MagnitudeToString(-x.m, x.e)
  ELSE MagnitudeToString(x.m, x.e)

RECURSIVE join(_, _)
\* Array.prototype.join of strings
join(strs, sep) ==
  IF strs = <<>> THEN <<>>
  ELSE IF Len(strs) = 1 THEN strs[1]
  ELSE strs[1] \o sep \o join(Tail(strs), sep)

\* str is [+-] digits [. digits] or [+-] . digits up to its end, where s1 is
\* the position after the sign and iEnd the end of the integer digits
IsDecimalLiteral(str, s1, iEnd, fEnd) ==
  /\ fEnd = Len(str) + 1
  /\ ~(iEnd = s1 /\ fEnd <= iEnd + 1)

\* Number(str) of a trimmed string: 0 for the empty string, the value of a
\* decimal literal, NaN for any other text (the texts here hold no
\* exponent, no hexadecimal literal and no Infinity)
NumberOfTrimmed(str, s1) ==
  IF str = <<>> THEN Dec(0)
  ELSE IF IsDecimalLiteral(str, s1, DigitRunEnd(str, s1),
                           IF HasSign(str, DigitRunEnd(str, s1), {"."})
                           THEN DigitRunEnd(str, DigitRunEnd(str, s1) + 1)
                           ELSE DigitRunEnd(str, s1))
       THEN parseFloat(str)
  ELSE NaN

\* Number(str), the conversion that tps.split(',').map(Number) applies
Number(str) ==
  NumberOfTrimmed(trim(str), IF HasSign(trim(str), 1, {"-", "+"}) THEN 2 ELSE 1)

\* the characters with the codes 32 to 126 ("bs" and "bt" stand for the
\* backslash and the backtick)
Ascii ==
  <<" ","!","\"","#","$","%","&","'","(",")","*","+",",","-",".","/",
    "0","1","2","3","4","5","6","7","8","9",":",";","<","=",">","?",
    "@","A","B","C","D","E","F","G","H","I","J","K","L","M","N","O",
    "P","Q","R","S","T","U","V","W","X","Y","Z","[","bs","]","^","_",
    "bt","a","b","c","d","e","f","g","h","i","j","k","l","m","n","o",
    "p","q","r","s","t","u","v","w","x","y","z","{","|","}","~">>

\* what a byte outside 32..126 decodes to: some character that is none of
\* the above
OtherChar == "other"

CharCode == [c \in Range(Ascii) |-> 31 + CHOOSE i \in DOMAIN Ascii : Ascii[i] = c]

\* the base64url alphabet
Base64UrlSeq == UpperSeq \o LowerSeq \o DigitSeq \o <<"-", "_">>

SextetOf ==
  [c \in Range(Base64UrlSeq) |-> (CHOOSE i \in DOMAIN Base64UrlSeq : Base64UrlSeq[i] = c) - 1]

RECURSIVE SextetsOfBytes(_)
\* three bytes make four sextets; one or two bytes at the end make two or
\* three, the last one filled with zero bits; no padding is written
SextetsOfBytes(b) ==
  IF b = <<>> THEN <<>>
  ELSE IF Len(b) = 1 THEN <<b[1] \div 4, (b[1] % 4) * 16>>
  ELSE IF Len(b) = 2
       THEN <<b[1] \div 4, (b[1] % 4) * 16 + (b[2] \div 16), (b[2] % 16) * 4>>
  ELSE <<b[1] \div 4, (b[1] % 4) * 16 + (b[2] \div 16),
         (b[2] % 16) * 4 + (b[3] \div 64), b[3] % 64>>
         \o SextetsOfBytes(SubSeq(b, 4, Len(b)))

RECURSIVE BytesOfSextets(_)
\* four sextets make three bytes; two or three sextets at the end make one
\* or two bytes, a single one makes none
BytesOfSextets(s) ==
  IF Len(s) < 2 THEN <<>>
  ELSE IF Len(s) = 2 THEN <<s[1] * 4 + (s[2] \div 16)>>
  ELSE IF Len(s) = 3
       THEN <<s[1] * 4 + (s[2] \div 16), (s[2] % 16) * 16 + (s[3] \div 4)>>
  ELSE <<s[1] * 4 + (s[2] \div 16), (s[2] % 16) * 16 + (s[3] \div 4),
         (s[3] % 4) * 64 + s[4]>>
         \o BytesOfSextets(SubSeq(s, 5, Len(s)))

\* the base64url characters of the sextets s
CharsOfSextets(s) == [i \in 1..Len(s) |-> Base64UrlSeq[s[i] + 1]]

\* Buffer.from(payload).toString('base64url'), for a payload of the
\* characters 32..126 (one byte each)
toBase64Url(payload) ==
  CharsOfSextets(SextetsOfBytes([k \in 1..Len(payload) |-> CharCode[payload[k]]]))

\* the text of the bytes b
CharsOfBytes(b) ==
  [i \in 1..Len(b) |-> IF b[i] \in 32..126 THEN Ascii[b[i] - 31] ELSE OtherChar]

\* Buffer.from(encoded, 'base64url').toString('utf-8'), for a text of
\* base64url characters
fromBase64Url(encoded) ==
  CharsOfBytes(BytesOfSextets([k \in 1..Len(encoded) |-> SextetOf[encoded[k]]]))

\* signal.leverage?.toString() || ''
LeverageField(leverage) == IF IsSome(leverage) THEN toString(Get(leverage)) ELSE <<>>

\* the payload before its encoding (encoding.ts:11-20)
PayloadOf(signal) ==
  join(<<signal.symbol,
         IF signal.side = "LONG" THEN <<"L">> ELSE <<"S">>,
         toString(signal.entryPrice),
         join([i \in 1..Len(signal.takeProfits) |-> toString(signal.takeProfits[i])], <<",">>),
         toString(signal.stopLoss),
         LeverageField(signal.leverage)>>, <<"|">>)

\* encoding.ts encodeSignalForDeeplink
encodeSignalForDeeplink(signal) == toBase64Url(PayloadOf(signal))

\* tps.split(',').map(Number).filter(n => !isNaN(n))
DecodedTakeProfits(tps) ==
  SelectSeq([i \in 1..Len(tps) |-> Number(tps[i])], LAMBDA n : ~IsNaN(n))

\* leverage ? parseInt(leverage, 10) : undefined, for the sixth part when
\* there is one
DecodedLeverage(parts) ==
  IF Len(parts) >= 6 /\ parts[6] # <<>> THEN Some(parseInt(parts[6])) ELSE None

\* encoding.ts:46-69, given the parts and what was read out of them
DecodedSignal(parts, takeProfits, entryPrice, stopLoss) ==
  IF takeProfits = <<>> THEN None
  ELSE IF IsNaN(entryPrice) \/ IsNaN(stopLoss) THEN None
  ELSE Some(TradeSignal(parts[1], IF parts[2] = <<"L">> THEN "LONG" ELSE "SHORT",
                        entryPrice, takeProfits, stopLoss, DecodedLeverage(parts)))

\* encoding.ts:33-59, given the parts of the payload
DecodeParts(parts) ==
  IF Len(parts) < 5 THEN None
  ELSE IF \E i \in 1..5 : parts[i] = <<>> THEN None
  ELSE DecodedSignal(parts, DecodedTakeProfits(split(parts[4], ",")),
                     parseFloat(parts[3]), parseFloat(parts[5]))

\* encoding.ts decodeSignalFromDeeplink: None for null
decodeSignalFromDeeplink(encoded) == DecodeParts(split(fromBase64Url(encoded), "|"))

\* encoding.ts isEncodedSignal: /^[A-Za-z0-9_-]{20,}$/ on a start parameter
\* that may be undefined
isEncodedSignal(startParam) ==
  /\ IsSome(startParam)
  /\ Len(Get(startParam)) >= 20
  /\ \A i \in 1..Len(Get(startParam)) : Get(startParam)[i] \in Range(Base64UrlSeq)

(***************************************************************************)
(* bot.ts, trader.ts, bitunix.ts: the confirmation / execution             *)
(* orchestrator.  A handler runs without interruption up to its next       *)
(* await; other handlers run while it waits.  Each action below is one     *)
(* such piece of a handler.                                                *)
(***************************************************************************)
MaxHandlers == 2

Users == {1, 2}

\* the callback data of the buttons the bot creates (bot.ts:119-122, 536-537)
CallbackData == {"execute_limit", "execute_market", "cancel"}

\* config.defaultLeverage, config.defaultPositionSizeUsdt (the README's .env: 10, 100)
ConfigDefaultLeverage == 10

ConfigDefaultPositionSizeUsdt == 100

\* the UserData that saveUser stores at the end of the registration (bot.ts:624-632)
RegisteredDefaults ==
  [defaultLeverage |-> Some(Dec(ConfigDefaultLeverage)),
   defaultPositionSizeUsdt |-> Some(Dec(ConfigDefaultPositionSizeUsdt))]

\* Map.prototype.get: None for undefined
MapGet(map, key) ==
  IF \E e \in map : e.key = key
  THEN Some((CHOOSE e \in map : e.key = key).value)
  ELSE None

\* a map that queues: set adds an entry and keeps the one the key had
MapSetKeepOld(map, key, value) == map \cup {[key |-> key, value |-> value]}

\* Map.prototype.set: the entry of the key is replaced
MapSet(map, key, value) ==
  {e \in map : e.key # key} \cup {[key |-> key, value |-> value]}

\* a delete that is not keyed by the requester: it clears the map
MapDeleteAll(map, key) == {}

\* Map.prototype.delete
MapDelete(map, key) == {e \in map : e.key # key}

\* a registration check that lets everyone through
EveryoneRegistered(store, userId) == TRUE

\* user-store.ts isUserRegistered
isUserRegistered(store, userId) == IsSome(store[userId])

\* user-store.ts getUser: null when the user is unknown or cannot be decrypted
getUser(store, userId, decryptOk) == IF decryptOk THEN store[userId] ELSE None

\* bot.ts isPrivateChat
isPrivateChat(chatType) == chatType = "private"

\* bot.ts isGroupChat
isGroupChat(chatType) == chatType \in {"group", "supergroup"}

(***************************************************************************)
(* The /start payloads (bot.ts:68): undefined for a plain /start, a plain  *)
(* word, a token of base64url characters that is the payload of no signal, *)
(* or the token of a signal.                                               *)
(***************************************************************************)
DeeplinkSignals ==
  {TradeSignal(W.BTCUSDT, "LONG", Dec(100), <<Dec(110), Dec(120)>>, Dec(90), None),
   TradeSignal(W.ETHUSDT, "SHORT", Dec(100), <<Dec(90)>>, Dec(110), Some(Dec(5)))}

\* the tokens of the deeplinks the bot posts for these signals (computed once)
DeeplinkToken == [s \in DeeplinkSignals |-> encodeSignalForDeeplink(s)]

\* 'help', and base64url of 'hello world hello'
StartPayloads ==
  {None, Some(<<"h","e","l","p">>),
   Some(<<"a","G","V","s","b","G","8","g","d","2","9","y","b","G","Q","g","a","G","V","s",
          "b","G","8">>)}
    \cup {Some(DeeplinkToken[s]) : s \in DeeplinkSignals}

\* bot.ts:71-74: the signal of a start parameter, None when the parameter
\* does not look like a token or does not decode (computed once)
StartSignal ==
  [p \in StartPayloads |->
     IF isEncodedSignal(p) THEN decodeSignalFromDeeplink(Get(p)) ELSE None]

\* what pendingSignals holds for a requester: the signal, and (for the
\* record only) the requester whose /start stored it
Stored(signal, userId) == [sig |-> signal, by |-> userId]

(***************************************************************************)
(* bitunix.ts getTickerPrice: null (None) on a network error, a non-zero   *)
(* code, an empty list or no matching ticker; else parseFloat(lastPrice).  *)
(***************************************************************************)
LastPrices == {NaN, Dec(0), Dec(95), Dec(100), Dec(105)}

TickerResults == {None} \cup {Some(p) : p \in LastPrices}

\* bitunix.ts placeOrder as executeTrade sees it: code 0, a non-zero code,
\* or an exception (no response)
PlaceOrderResults == {"ok", "rejected", "raised"}

\* bot.ts:513  if (currentPrice)
PriceKnown(currentPrice) == TruthyOpt(currentPrice)

\* the comparison with < and > in the place of <= and >=
wouldExecuteImmediatelyStrict(signal, currentPrice) ==
  IF signal.side = "LONG"
  THEN JsLt(currentPrice, signal.entryPrice)
  ELSE JsGt(currentPrice, signal.entryPrice)

\* bot.ts:514-517
wouldExecuteImmediately(signal, currentPrice) ==
  IF signal.side = "LONG"
  THEN JsLe(currentPrice, signal.entryPrice)
  ELSE JsGe(currentPrice, signal.entryPrice)

\* bot.ts:535-538: the keyboard of the price warning
PriceWarningKeyboard == {"execute_market", "cancel"}

\* a || b for optional numbers
OrElse(a, b) == IF TruthyOpt(a) THEN a ELSE b

Abs(n) == IF n < 0 THEN -n ELSE n

RECURSIVE ScaledFraction(_, _, _, _)
\* the first k digits of the fraction r / d (0 <= r < d) after the digits
\* acc, and what is left of r after them
ScaledFraction(r, d, k, acc) ==
  IF k = 0 THEN [digits |-> acc, rest |-> r]
  ELSE ScaledFraction((r * 10) % d, d, k - 1, acc * 10 + ((r * 10) \div d))

\* whole and fraction (in units of 10^-k) with the digits after the k-th
\* cut off
Truncated(whole, f, d, k) == [whole |-> whole, fraction |-> f.digits]

\* whole and fraction (in units of 10^-k) of the nearest multiple of 10^-k,
\* the larger one when two are equally near
Rounded(whole, f, d, k) ==
  IF 2 * f.rest < d THEN [whole |-> whole, fraction |-> f.digits]
  ELSE IF f.digits + 1 = Pow10(k) THEN [whole |-> whole + 1, fraction |-> 0]
  ELSE [whole |-> whole, fraction |-> f.digits + 1]

\* the text of whole.fraction with k fraction digits
FixedText(x, k) ==
  NatToString(x.whole) \o <<".">> \o ZeroPadded(NatToString(x.fraction), k)

\* Number.prototype.toFixed(k) of the quotient n / d, k > 0.  The program
\* rounds the double nearest to n / d; that is the rounding of n / d itself
\* unless n / d lies within the precision of a double of the middle of two
\* multiples of 10^-k, which the quotients here do not (the exact middles
\* among them are doubles, and toFixed takes the larger neighbour)
toFixed(n, d, k) ==
  IF d = 0 THEN IF n = 0 THEN <<"N","a","N">> ELSE <<"I","n","f","i","n","i","t","y">>
  ELSE (IF (n < 0) # (d < 0) /\ n # 0 THEN <<"-">> ELSE <<>>)
         \o FixedText(Rounded(Abs(n) \div Abs(d),
                              ScaledFraction(Abs(n) % Abs(d), Abs(d), k, 0), Abs(d), k), k)

\* trader.ts:8-17 calculateQuantity: ((positionSizeUsdt * leverage) /
\* entryPrice).toFixed(8), the numbers being m / 10^e
calculateQuantity(positionSizeUsdt, entryPrice, leverage) ==
  toFixed(positionSizeUsdt.m * leverage.m * Pow10(entryPrice.e),
          entryPrice.m * Pow10(positionSizeUsdt.e + leverage.e), 8)

\* trader.ts:38  options?.positionSizeUsdt || signal.positionSize ||
\* config.defaultPositionSizeUsdt (no signal carries a positionSize)
ResolvedPositionSize(options) ==
  Get(OrElse(options.positionSizeUsdt, Some(Dec(ConfigDefaultPositionSizeUsdt))))

\* trader.ts:39  options?.leverage || signal.leverage || config.defaultLeverage
ResolvedLeverage(signal, options) ==
  Get(OrElse(OrElse(options.leverage, signal.leverage), Some(Dec(ConfigDefaultLeverage))))

\* trader.ts:47
OrderSide(side) == IF side = "LONG" THEN "BUY" ELSE "SELL"

\* an order type that is MARKET unless a limit is asked for
OrderTypeMarketFirst(useMarketOrder) == "MARKET"

\* trader.ts:53
OrderType(useMarketOrder) == IF useMarketOrder THEN "MARKET" ELSE "LIMIT"

\* the last of the targets
LastTarget(takeProfits) == takeProfits[Len(takeProfits)]

\* trader.ts:59  signal.takeProfits[0]
FirstTarget(takeProfits) == takeProfits[1]

\* trader.ts:44-71: the order parameters, given the resolved size and
\* leverage (both kept next to the quantity they lead to)
OrderParams(signal, useMarketOrder, positionSize, leverage) ==
  [symbol       |-> signal.symbol,
   side         |-> OrderSide(signal.side),
   orderType    |-> OrderType(useMarketOrder),
   qty          |-> calculateQuantity(positionSize, signal.entryPrice, leverage),
   positionSize |-> positionSize,
   leverage     |-> leverage,
   tradeSide    |-> "OPEN",
   effect       |-> "GTC",
   tpPrice      |-> toString(FirstTarget(signal.takeProfits)),
   tpStopType   |-> "MARK",
   tpOrderType  |-> "MARKET",
   slPrice      |-> toString(signal.stopLoss),
   slStopType   |-> "MARK",
   slOrderType  |-> "MARKET",
   price        |-> IF useMarketOrder THEN None ELSE Some(toString(signal.entryPrice))]

\* trader.ts:38-71: the order parameters executeTrade builds
BuildOrder(signal, options) ==
  OrderParams(signal, options.useMarketOrder, ResolvedPositionSize(options),
              ResolvedLeverage(signal, options))

\* bot.ts:545-549: executeTrade(client, signal, {positionSizeUsdt, leverage, useMarketOrder: false})
LimitOptions(user) ==
  [positionSizeUsdt |-> IF IsSome(user) THEN Get(user).defaultPositionSizeUsdt ELSE None,
   leverage         |-> IF IsSome(user) THEN Get(user).defaultLeverage ELSE None,
   useMarketOrder   |-> FALSE]

\* bot.ts:555, trader.ts:110-116: executeMarketTrade(client, signal, positionSizeUsdt)
MarketOptions(user) ==
  [positionSizeUsdt |-> IF IsSome(user) THEN Get(user).defaultPositionSizeUsdt ELSE None,
   leverage         |-> None,
   useMarketOrder   |-> TRUE]

(***************************************************************************)
(* encoding.ts calculateRiskReward and its rendering in the replies.  The  *)
(* ratio is kept as a fraction n / d in lowest terms: 1 / 0 is Infinity,   *)
(* 0 / 0 is NaN.  The program computes in doubles, which agree with the    *)
(* fraction up to their rounding.                                          *)
(***************************************************************************)
\* a - b of two numbers, NaN when one of them is NaN
Minus(a, b) ==
  IF IsNaN(a) \/ IsNaN(b) THEN NaN
  ELSE IF a.e >= b.e THEN Normalise(a.m - b.m * Pow10(a.e - b.e), a.e)
  ELSE Normalise(a.m * Pow10(b.e - a.e) - b.m, b.e)

\* Math.abs
MathAbs(x) == IF IsNaN(x) THEN NaN ELSE [x EXCEPT !.m = Abs(x.m)]

RECURSIVE Gcd(_, _)
Gcd(a, b) == IF b = 0 THEN a ELSE Gcd(b, a % b)

\* n / d in lowest terms
Fraction(n, d) ==
  IF n = 0 /\ d = 0 THEN [n |-> 0, d |-> 0]
  ELSE [n |-> n \div Gcd(n, d), d |-> d \div Gcd(n, d)]

\* a / b of two numbers that are not negative
Quotient(a, b) ==
  IF IsNaN(a) \/ IsNaN(b) THEN Fraction(0, 0)
  ELSE Fraction(a.m * Pow10(b.e), b.m * Pow10(a.e))

\* encoding.ts:343  risk = Math.abs(signal.entryPrice - signal.stopLoss)
Risk(signal) == MathAbs(Minus(signal.entryPrice, signal.stopLoss))

\* a reward measured to the last target
RewardToLastTarget(signal) ==
  MathAbs(Minus(signal.takeProfits[Len(signal.takeProfits)], signal.entryPrice))

\* encoding.ts:344  reward = Math.abs(signal.takeProfits[0] - signal.entryPrice)
Reward(signal) == MathAbs(Minus(signal.takeProfits[1], signal.entryPrice))

\* encoding.ts:342-346  calculateRiskReward: reward / risk
calculateRiskReward(signal) == Quotient(Reward(signal), Risk(signal))

\* bot.ts:109, 676  `${rr.toFixed(2)}:1`
RiskRewardText(rr) == toFixed(rr.n, rr.d, 2) \o <<":","1">>

\* bot.ts:100-109, 668-676  the risk/reward computed for a reply and the
\* text the reply shows for it
RiskRewardShown(signal) ==
  [riskReward |-> calculateRiskReward(signal),
   text       |-> RiskRewardText(calculateRiskReward(signal))]

\* user?.defaultLeverage, user?.defaultPositionSizeUsdt
DefaultLeverageOf(user) == IF IsSome(user) THEN Get(user).defaultLeverage ELSE None

DefaultPositionSizeOf(user) == IF IsSome(user) THEN Get(user).defaultPositionSizeUsdt ELSE None

\* bot.ts:102  the leverage the confirmation shows:
\* signal.leverage || user?.defaultLeverage || config.defaultLeverage
ShownLeverage(signal, user) ==
  Get(OrElse(OrElse(signal.leverage, DefaultLeverageOf(user)), Some(Dec(ConfigDefaultLeverage))))

\* bot.ts:103  the position size the confirmation shows:
\* user?.defaultPositionSizeUsdt || config.defaultPositionSizeUsdt
ShownPositionSize(user) ==
  Get(OrElse(DefaultPositionSizeOf(user), Some(Dec(ConfigDefaultPositionSizeUsdt))))

(***************************************************************************)
(* The texts posted in a group: a signal in the structured format, and     *)
(* chatter.                                                                *)
(***************************************************************************)
GroupSignalText ==
  <<"B","T","C"," ","L","O","N","G","\n","E","n","t","r","y",":"," ","1","0","0","\n",
    "S","t","o","p"," ","L","o","s","s",":"," ","9","0","\n",
    "T","a","k","e"," ","P","r","o","f","i","t",":"," ","1","1","0","-","1","2","0">>

GroupChatterText == <<"g","m"," ","a","l","l">>

GroupTexts == {GroupSignalText, GroupChatterText}

\* parseTradeSignal on the group texts (computed once)
ParsedGroupText == [t \in GroupTexts |-> parseTradeSignal(t)]

\* a handler waiting at an await: its requester, the callback data, the
\* locals signal (bot.ts:495) and user (bot.ts:507), where it waits, and,
\* while they are in use, currentPrice (bot.ts:511), the buttons of the
\* message being written (bot.ts:535-538), the order sent (trader.ts:50-71)
\* and the outcome of placeOrder
Handler(userId, data, signal, user, pc) ==
  [user |-> userId, data |-> data, signal |-> signal, udata |-> user, pc |-> pc,
   price |-> None, markup |-> {}, order |-> None, result |-> "none"]

Waiting == BagToSet(handlers)

\* the handler h moves on to h2
Continue(h, h2) == handlers' = (handlers (-) SetToBag({h})) (+) SetToBag({h2})

\* the handler h returns, or throws into bot.catch (bot.ts:691-694)
Finish(h) == handlers' = handlers (-) SetToBag({h})

\* the awaits on the Telegram API: answerCbQuery and editMessageText
TelegramAwaits ==
  {"answer_warning", "edit_warning", "answer_placing", "edit_result",
   "answer_cancel", "edit_cancel"}

\* bot.ts:59-154  bot.command('start')
CommandStart(userId, chatType, payload) ==
  /\ IF /\ isPrivateChat(chatType)
        /\ IsSome(StartSignal[payload])
        /\ isUserRegistered(userStore, userId)
     THEN pendingSignals' =
            MapSet(pendingSignals, userId, Stored(Get(StartSignal[payload]), userId))
     ELSE UNCHANGED pendingSignals
  /\ UNCHANGED <<userStore, handlers, links, parserVars, traderVars, registerVars>>

\* bot.ts:395-424  bot.command('delete')
CommandDelete(userId, chatType) ==
  /\ isPrivateChat(chatType)
  /\ isUserRegistered(userStore, userId)
  /\ userStore' = [userStore EXCEPT ![userId] = None]
  /\ UNCHANGED <<pendingSignals, handlers, links, parserVars, traderVars, registerVars>>

\* bot.on('text') as it would be with an auto-execute path: the parsed
\* signal of a group text is submitted at once
OnTextAutoExecute(userId, chatType, text) ==
  /\ IF isGroupChat(chatType) /\ IsSome(ParsedGroupText[text])
     THEN /\ links' = links \cup {Get(ParsedGroupText[text])}
          /\ BagCardinality(handlers) < MaxHandlers
          /\ handlers' = handlers (+) SetToBag({
               [Handler(userId, "execute_limit", Stored(Get(ParsedGroupText[text]), userId),
                        userStore[userId], "placing")
                  EXCEPT !.order = Some(BuildOrder(Get(ParsedGroupText[text]),
                                                   LimitOptions(userStore[userId])))]})
     ELSE UNCHANGED <<links, handlers>>
  /\ UNCHANGED <<pendingSignals, userStore, parserVars, traderVars, registerVars>>

\* bot.ts:570-685  bot.on('text'), for a text sent while no registration is
\* under way: a private text is ignored, a group text is parsed and a
\* parsed signal is answered with its "Place Trade" deeplink
OnText(userId, chatType, text) ==
  /\ IF isGroupChat(chatType) /\ IsSome(ParsedGroupText[text])
     THEN links' = links \cup {Get(ParsedGroupText[text])}
     ELSE UNCHANGED links
  /\ UNCHANGED <<pendingSignals, userStore, handlers, parserVars, traderVars, registerVars>>

\* bot.ts:482-511, 553-554, 559-560  bot.on('callback_query') up to its first await
CallbackQuery(userId, data, decryptOk) ==
  LET signal == MapGet(pendingSignals, userId)
      user   == getUser(userStore, userId, decryptOk)
      first  == CASE data = "execute_limit"  -> "price"
                  [] data = "execute_market" -> "answer_placing"
                  [] data = "cancel"         -> "answer_cancel"
  IN  /\ IF /\ isUserRegistered(userStore, userId)
            /\ IsSome(signal)
            /\ IsSome(user)
         THEN /\ BagCardinality(handlers) < MaxHandlers
              /\ handlers' = handlers (+) SetToBag({Handler(userId, data, Get(signal), user, first)})
         ELSE UNCHANGED handlers
      /\ UNCHANGED <<pendingSignals, userStore, links, parserVars, traderVars, registerVars>>

\* the price check as it would be if it failed closed: without a price the
\* handler gives up
PriceReturnsFailClosed(h, currentPrice) ==
  /\ h \in Waiting /\ h.pc = "price"
  /\ IF ~PriceKnown(currentPrice) THEN Finish(h)
     ELSE Continue(h, [h EXCEPT
            !.price = currentPrice,
            !.pc = IF wouldExecuteImmediately(h.signal.sig, Get(currentPrice))
                   THEN "answer_warning" ELSE "answer_placing"])
  /\ UNCHANGED <<pendingSignals, userStore, links, parserVars, traderVars, registerVars>>

\* bot.ts:511-519, 544  getTickerPrice has returned currentPrice
PriceReturns(h, currentPrice) ==
  /\ h \in Waiting /\ h.pc = "price"
  /\ Continue(h, [h EXCEPT
       !.price = currentPrice,
       !.pc = IF /\ PriceKnown(currentPrice)
                 /\ wouldExecuteImmediately(h.signal.sig, Get(currentPrice))
              THEN "answer_warning" ELSE "answer_placing"])
  /\ UNCHANGED <<pendingSignals, userStore, links, parserVars, traderVars, registerVars>>

\* bot.ts:520-538  answerCbQuery('Price check needed!') is through; the
\* warning is sent with its two buttons
WarningAnswered(h) ==
  /\ h \in Waiting /\ h.pc = "answer_warning"
  /\ Continue(h, [h EXCEPT !.pc = "edit_warning", !.price = None,
                           !.markup = PriceWarningKeyboard])
  /\ UNCHANGED <<pendingSignals, userStore, links, parserVars, traderVars, registerVars>>

\* bot.ts:521-540  the price warning is shown; the handler returns
WarningShown(h) ==
  /\ h \in Waiting /\ h.pc = "edit_warning"
  /\ Finish(h)
  /\ UNCHANGED <<pendingSignals, userStore, links, parserVars, traderVars, registerVars>>

\* bot.ts:544-549, 554-555, trader.ts:38-76  answerCbQuery('Placing ...') is
\* through; executeTrade builds the order and sends it
PlacingAnswered(h) ==
  /\ h \in Waiting /\ h.pc = "answer_placing"
  /\ Continue(h, [h EXCEPT
       !.pc = "placing",
       !.price = None,
       !.order = Some(BuildOrder(h.signal.sig,
                                 IF h.data = "execute_limit"
                                 THEN LimitOptions(h.udata) ELSE MarketOptions(h.udata)))])
  /\ UNCHANGED <<pendingSignals, userStore, links, parserVars, traderVars, registerVars>>

\* an executeTrade that tries again: after a rejected or failed request the
\* handler goes back to send the order once more
PlaceOrderReturnsRetrying(h, result) ==
  /\ h \in Waiting /\ h.pc = "placing"
  /\ Continue(h, [h EXCEPT !.pc = IF result = "ok" THEN "edit_result" ELSE "answer_placing",
                           !.result = result, !.order = None])
  /\ UNCHANGED <<pendingSignals, userStore, links, parserVars, traderVars, registerVars>>

\* trader.ts:76-104, bot.ts:550, 556  placeOrder has answered or thrown;
\* executeTrade returns the TradeResult
PlaceOrderReturns(h, result) ==
  /\ h \in Waiting /\ h.pc = "placing"
  /\ Continue(h, [h EXCEPT !.pc = "edit_result", !.result = result, !.order = None])
  /\ UNCHANGED <<pendingSignals, userStore, links, parserVars, traderVars, registerVars>>

\* bot.ts:550-551, 556-557  the result is shown; the signal is removed
ResultShown(h) ==
  /\ h \in Waiting /\ h.pc = "edit_result"
  /\ pendingSignals' = MapDelete(pendingSignals, h.user)
  /\ Finish(h)
  /\ UNCHANGED <<userStore, links, parserVars, traderVars, registerVars>>

\* bot.ts:560-561  answerCbQuery('Trade cancelled.') is through
CancelAnswered(h) ==
  /\ h \in Waiting /\ h.pc = "answer_cancel"
  /\ Continue(h, [h EXCEPT !.pc = "edit_cancel"])
  /\ UNCHANGED <<pendingSignals, userStore, links, parserVars, traderVars, registerVars>>

\* bot.ts:561-562  'Trade cancelled.' is shown; the signal is removed
CancelShown(h) ==
  /\ h \in Waiting /\ h.pc = "edit_cancel"
  /\ pendingSignals' = MapDelete(pendingSignals, h.user)
  /\ Finish(h)
  /\ UNCHANGED <<userStore, links, parserVars, traderVars, registerVars>>

\* bot.ts:691-694  a call of the Telegram API is rejected: the handler
\* throws at its await and bot.catch swallows the error
TelegramFails(h) ==
  /\ h \in Waiting /\ h.pc \in TelegramAwaits
  /\ Finish(h)
  /\ UNCHANGED <<pendingSignals, userStore, links, parserVars, traderVars, registerVars>>

ChatTypes == {"private", "group"}

BotInit ==
  /\ pendingSignals = {}
  /\ userStore = [u \in Users |-> Some(RegisteredDefaults)]
  /\ handlers = EmptyBag
  /\ links = {}
  /\ message = <<>>
  /\ parsed = None
  /\ token = None
  /\ decoded = None
  /\ reply = None
  /\ request = None
  /\ submitted = None
  /\ response = None
  /\ returned = None
  /\ registrationStates = [u \in Users |-> None]
  /\ texts = EmptyBag

BotNext ==
  \/ \E u \in Users, c \in ChatTypes, p \in StartPayloads : CommandStart(u, c, p)
  \/ \E u \in Users, c \in ChatTypes : CommandDelete(u, c)
  \/ \E u \in Users, c \in ChatTypes, t \in GroupTexts : OnText(u, c, t)
  \/ \E u \in Users, d \in CallbackData, ok \in BOOLEAN : CallbackQuery(u, d, ok)
  \/ \E h \in Waiting, p \in TickerResults : PriceReturns(h, p)
  \/ \E h \in Waiting : WarningAnswered(h)
  \/ \E h \in Waiting : WarningShown(h)
  \/ \E h \in Waiting : PlacingAnswered(h)
  \/ \E h \in Waiting, r \in PlaceOrderResults : PlaceOrderReturns(h, r)
  \/ \E h \in Waiting : ResultShown(h)
  \/ \E h \in Waiting : CancelAnswered(h)
  \/ \E h \in Waiting : CancelShown(h)
  \/ \E h \in Waiting : TelegramFails(h)

Spec == BotInit /\ [][BotNext]_vars

(***************************************************************************)
(* The registration flow of bot.ts: /register, then the API key and the    *)
(* API secret as two private text messages.  The text handler reads the    *)
(* registration state, awaits ctx.deleteMessage() and then acts on the     *)
(* state it read, so a handler waiting at that await is a record           *)
(* [user, text, regState] in the bag texts.                                *)
(***************************************************************************)
MaxTexts == 2

\* the requester whose registration is followed
Registrants == {1}

\* the least text.length the key and the secret handlers accept (bot.ts:595, 618)
MinCredentialLength == 10

\* the private text messages a requester sends during a registration
RegistrationTexts ==
  {<<"a","b","c","1","2","3">>,
   <<"k","e","y","0","1","2","3","4","5","6">>,
   <<"s","e","c","r","e","t","0","1","2","3","4">>,
   <<"a","b","c"," "," "," "," "," "," "," ">>,
   <<" "," "," "," "," "," "," "," "," "," ">>,
   <<"/","k","e","y","0","1","2","3","4","5","6">>}

\* String.prototype.startsWith
startsWith(str, prefix) ==
  /\ Len(str) >= Len(prefix)
  /\ Slice(str, 1, Len(prefix)) = prefix

\* bot.ts:595, 618  no text is too short (the length test dropped)
NeverTooShort(text) == FALSE

\* bot.ts:595, 618  text.length < 10
TooShort(text) == Len(text) < MinCredentialLength

\* types.ts:66-70  RegistrationState
AwaitingApiKey == [step |-> "awaiting_api_key", apiKey |-> None]

AwaitingApiSecret(apiKey) == [step |-> "awaiting_api_secret", apiKey |-> Some(apiKey)]

\* regState.apiKey as a condition: undefined and '' are falsy
HasApiKey(regState) == IsSome(regState.apiKey) /\ Get(regState.apiKey) # <<>>

\* bot.ts:624-632  the UserData handed to saveUser
Registered(apiKey, apiSecret) ==
  [bitunixApiKey |-> apiKey,
   bitunixApiSecret |-> apiSecret,
   defaultLeverage |-> RegisteredDefaults.defaultLeverage,
   defaultPositionSizeUsdt |-> RegisteredDefaults.defaultPositionSizeUsdt]

TextHandler(userId, text, regState) == [user |-> userId, text |-> text, regState |-> regState]

WaitingTexts == BagToSet(texts)

\* bot.ts:159-197  bot.command('register')
CommandRegister(userId, chatType) ==
  /\ IF /\ isPrivateChat(chatType)
        /\ ~isUserRegistered(userStore, userId)
     THEN registrationStates' = [registrationStates EXCEPT ![userId] = Some(AwaitingApiKey)]
     ELSE UNCHANGED registrationStates
  /\ UNCHANGED <<texts, botVars, parserVars, traderVars>>

\* bot.ts:570-588  bot.on('text') in a private chat, up to await ctx.deleteMessage()
RegistrationText(userId, chatType, text) ==
  /\ BagCardinality(texts) < MaxTexts
  /\ IF /\ ~startsWith(text, <<"/">>)
        /\ isPrivateChat(chatType)
        /\ IsSome(registrationStates[userId])
     THEN texts' = texts (+) SetToBag({TextHandler(userId, text, Get(registrationStates[userId]))})
     ELSE UNCHANGED texts
  /\ UNCHANGED <<registrationStates, botVars, parserVars, traderVars>>

\* bot.ts:589-655  the same handler once deleteMessage has settled (a failure
\* of deleteMessage is caught and ignored, bot.ts:587-591)
MessageDeleted(h) ==
  /\ h \in WaitingTexts
  /\ texts' = texts (-) SetToBag({h})
  /\ IF h.regState.step = "awaiting_api_key"
     THEN /\ IF TooShort(h.text)
             THEN UNCHANGED registrationStates
             ELSE registrationStates' =
                    [registrationStates EXCEPT ![h.user] = Some(AwaitingApiSecret(trim(h.text)))]
          /\ UNCHANGED userStore
     ELSE IF h.regState.step = "awaiting_api_secret" /\ HasApiKey(h.regState)
     THEN IF TooShort(h.text)
          THEN UNCHANGED <<registrationStates, userStore>>
          ELSE /\ userStore' = [userStore EXCEPT
                                  ![h.user] = Some(Registered(Get(h.regState.apiKey), trim(h.text)))]
               /\ registrationStates' = [registrationStates EXCEPT ![h.user] = None]
     ELSE UNCHANGED <<registrationStates, userStore>>
  /\ UNCHANGED <<pendingSignals, handlers, links, parserVars, traderVars>>

RegistrationNext ==
  \/ \E u \in Registrants, c \in ChatTypes : CommandRegister(u, c)
  \/ \E u \in Registrants, c \in ChatTypes : CommandDelete(u, c)
  \/ \E u \in Registrants, c \in ChatTypes, t \in RegistrationTexts : RegistrationText(u, c, t)
  \/ \E h \in WaitingTexts : MessageDeleted(h)

RegistrationSpec == BotInit /\ [][RegistrationNext]_vars

(***************************************************************************)
(* The parser on its own: the texts it is given.                           *)
(***************************************************************************)
\* first lines: two headers of the structured format, and one without a side keyword
HeaderLines ==
  { <<"B","T","C"," ","L","O","N","G">>,
    <<"E","T","H"," ","S","H","O","R","T">>,
    <<"B","T","C"," ","h","o","l","d">> }

\* entry lines
EntryLines ==
  { <<"E","n","t","r","y",":"," ","1","0","0">>,
    <<"E","n","t","r","y",":"," ","0">> }

\* stop-loss lines, labelled as in the structured and as in the free format
StopLossLines ==
  { <<"S","t","o","p"," ","L","o","s","s",":"," ","9","0">>,
    <<"s","l"," ","1","1","0">>,
    <<"S","t","o","p"," ","L","o","s","s",":"," ","0">> }

\* take-profit lines: ranges written in both orders, a range with a token
\* that is no number, a zero, and free-format labels
TakeProfitLines ==
  { <<"T","a","k","e"," ","P","r","o","f","i","t",":"," ","1","1","0","-","1","2","0">>,
    <<"T","a","k","e"," ","P","r","o","f","i","t",":"," ","9","0"," ","-"," ","8","0">>,
    <<"T","a","k","e"," ","P","r","o","f","i","t",":"," ","8","0"," ","-"," ",","," ","9","0">>,
    <<"T","a","k","e"," ","P","r","o","f","i","t",":"," ","0">>,
    <<"t","p",":"," ","1","2","0"," ","t","p",":"," ","1","1","0">>,
    <<"t","p",":"," ","0">> }

\* texts that are not made of the four lines
FreeTexts ==
  { <<>>,
    <<"g","m"," ","a","l","l">>,
    <<"B","T","C"," ","1","0","0"," ","t","p"," ","1","1","0"," ","s","l"," ","9","0">>,
    <<"#"," ","B","T","C"," ","L","O","N","G","\n","E","n","t","r","y",":"," ","1","0","0","\n","S","t","o","p"," ","L","o","s","s",":"," ","9","0","\n","T","a","k","e"," ","P","r","o","f","i","t",":"," ","1","1","0">>,
    <<"b","t","c"," ","l","o","n","g"," ","1","0","0"," ","t","p"," ","1","1","0"," ","s","l"," ","9","0">>,
    <<"E","T","H"," ","S","E","L","L"," ","@"," ","1","0","0"," ","|"," ","T","P",":"," ","9","0"," ","|"," ","S","L",":"," ","1","1","0">>,
    <<"B","T","C"," ","B","U","Y"," ","e","n","t","r","y"," ","1","0","0"," ","t","p",":"," ","1","1","0"," ","s","l"," ","9","0">>,
    \* signals whose stop loss is their entry
    <<"B","T","C"," ","L","O","N","G","\n","E","n","t","r","y",":"," ","1","0","0","\n","S","t","o","p"," ","L","o","s","s",":"," ","1","0","0","\n","T","a","k","e"," ","P","r","o","f","i","t",":"," ","1","1","0">>,
    <<"B","T","C"," ","L","O","N","G","\n","E","n","t","r","y",":"," ","1","0","0","\n","S","t","o","p"," ","L","o","s","s",":"," ","1","0","0","\n","T","a","k","e"," ","P","r","o","f","i","t",":"," ","1","0","0">> }

(***************************************************************************)
(* The formats the README and the parser's test script show, with the      *)
(* README's prices scaled down.                                            *)
(***************************************************************************)
SampleTexts ==
  [\* a signal after another word (README: a signal after an emoji)
   prefixed |->
      <<"S","i","g","n","a","l",":"," ","B","T","C"," ","L","O","N","G"," ","e","n","t","r","y",
        " ","1","0","0"," ","t","p",":"," ","1","1","0"," ","s","l"," ","9","0">>,
   \* README: BTC LONG 95000 TP 96000 97000 SL 94000
   bareEntry |->
      <<"B","T","C"," ","L","O","N","G"," ","1","0","0"," ","T","P"," ","1","1","0"," ","S","L",
        " ","9","0">>,
   \* README: ETH SHORT @ 3500 | TP: 3400, 3300 | SL: 3600
   multiTarget |->
      <<"E","T","H"," ","S","H","O","R","T"," ","@"," ","1","0","0"," ","|"," ","T","P",":"," ",
        "9","0",","," ","8","0"," ","|"," ","S","L",":"," ","1","1","0">>,
   \* README: ... TP1: 96000 TP2: 97000 ..., with a target written twice
   indexed |->
      <<"E","T","H"," ","S","H","O","R","T"," ","@"," ","1","0","0"," ","|"," ","T","P","1",":",
        " ","9","0"," ","T","P","2",":"," ","8","0"," ","T","P","3",":"," ","9","0"," ","|"," ",
        "S","L",":"," ","1","1","0">>,
   \* README: BTCUSDT Long Entry: 95000 TP1: 96000 TP2: 97000 SL: 94000
   suffixed |->
      <<"B","T","C","U","S","D","T"," ","L","o","n","g"," ","E","n","t","r","y",":"," ","1","0",
        "0"," ","T","P","1",":"," ","1","1","0"," ","T","P","2",":"," ","1","2","0"," ","S","L",
        ":"," ","9","0">>,
   \* a symbol with another quote asset, in the structured format
   otherQuote |->
      <<"e","t","h","u","s","d"," ","s","h","o","r","t","\n","E","n","t","r","y",":"," ","1","0",
        "0","\n","S","t","o","p"," ","L","o","s","s",":"," ","1","1","0","\n","T","a","k","e",
        " ","P","r","o","f","i","t",":"," ","9","0">>,
   \* the third of testSignals
   streets |->
      <<"B","T","C"," ","L","O","N","G","\n","L","e","v","e","r","a","g","e",":"," ","1","0",
        "-","2","5","x","\n","E","n","t","r","y",":"," ","9","5",",","0","9","3"," ","/"," ",
        "C","u","r","r","e","n","t"," ","P","r","i","c","e"," ","9","5",",","3","3","7",".","8",
        "9","\n","S","t","o","p"," ","L","o","s","s",":"," ","9","4",",","8","6","1",".","6",
        "8","\n","T","a","k","e"," ","P","r","o","f","i","t",":"," ","9","6",",","1","1","7",
        ".","7","1">>]

FourLines(h, e, s, t) == h \o <<"\n">> \o e \o <<"\n">> \o s \o <<"\n">> \o t

Messages ==
  {FourLines(h, e, s, t) : h \in HeaderLines, e \in EntryLines,
                           s \in StopLossLines, t \in TakeProfitLines}
    \cup FreeTexts \cup {SampleTexts[k] : k \in DOMAIN SampleTexts}

(***************************************************************************)
(* Start parameters that no reply of the bot carried: payloads written by  *)
(* hand and encoded.                                                       *)
(***************************************************************************)
CraftedPayloads ==
  [fourParts |-> <<"B","T","C","U","S","D","T","|","L","|","1","0","0","|","1","1","0">>,
   noSide |-> <<"B","T","C","U","S","D","T","|","|","1","0","0","|","1","1","0","|","9","0">>,
   noTargets |-> <<"B","T","C","U","S","D","T","|","L","|","1","0","0","|","|","9","0">>,
   wordTarget |-> <<"B","T","C","U","S","D","T","|","L","|","1","0","0","|","a","b","c","|","9","0">>,
   wordEntry |-> <<"B","T","C","U","S","D","T","|","L","|","a","b","c","|","1","1","0","|","9","0">>,
   wordStop |-> <<"B","T","C","U","S","D","T","|","L","|","1","0","0","|","1","1","0","|","x","9">>,
   commaTargets |-> <<"B","T","C","U","S","D","T","|","L","|","1","0","0","|",",","|","9","0">>,
   entryWithUnit |-> <<"B","T","C","U","S","D","T","|","L","|","1","0","0","x","|","1","1","0","|","9","0">>,
   unsortedTargets |-> <<"B","T","C","U","S","D","T","|","L","|","1","0","0","|","1","2","0",",","1","1","0","|","9","0">>,
   zeroEntry |-> <<"B","T","C","U","S","D","T","|","L","|","0","|","1","1","0","|","9","0">>,
   oneWordTarget |-> <<"B","T","C","U","S","D","T","|","L","|","1","0","0","|","1","1","0",",","a","b","c","|","9","0","|","1","0">>]

\* their tokens (computed once)
CraftedTokens == {toBase64Url(CraftedPayloads[k]) : k \in DOMAIN CraftedPayloads}

\* a text arrives
Receive(msg) ==
  /\ message' = msg
  /\ parsed' = None
  /\ token' = None
  /\ decoded' = None
  /\ reply' = None
  /\ UNCHANGED <<botVars, traderVars, registerVars>>

\* parseTradeSignal(message) returns
Parse ==
  /\ parsed = None
  /\ parsed' = Some(parseTradeSignal(message))
  /\ UNCHANGED <<message, token, decoded, reply, botVars, traderVars, registerVars>>

\* bot.ts:657-684, encoding.ts:79-82: the deeplink of the parsed signal is
\* made and the group is answered with the signal and its risk/reward
Encode ==
  /\ IsSome(parsed) /\ IsSome(Get(parsed))
  /\ token = None
  /\ token' = Some(encodeSignalForDeeplink(Get(Get(parsed))))
  /\ reply' = Some(RiskRewardShown(Get(Get(parsed))))
  /\ UNCHANGED <<message, parsed, decoded, botVars, traderVars, registerVars>>

\* bot.ts:68-109: the token comes back as the start parameter and is
\* decoded; a decoded signal is answered with its risk/reward
Decode ==
  /\ IsSome(token)
  /\ decoded = None
  /\ decoded' = Some(IF isEncodedSignal(token) THEN decodeSignalFromDeeplink(Get(token))
                     ELSE None)
  /\ reply' = IF IsSome(Get(decoded')) THEN Some(RiskRewardShown(Get(Get(decoded'))))
              ELSE None
  /\ UNCHANGED <<message, parsed, token, botVars, traderVars, registerVars>>

\* bot.ts:70  a /start arrives with a start parameter made by hand
Open(startParam) ==
  /\ message' = <<>>
  /\ parsed' = None
  /\ token' = Some(startParam)
  /\ decoded' = None
  /\ reply' = None
  /\ UNCHANGED <<botVars, traderVars, registerVars>>

ParserNext ==
  \/ \E msg \in Messages : Receive(msg)
  \/ \E t \in CraftedTokens : Open(t)
  \/ Parse
  \/ Encode
  \/ Decode

ParserSpec == BotInit /\ [][ParserNext]_vars

(***************************************************************************)
(* executeTrade on its own: the signals and options it is called with.     *)
(***************************************************************************)
\* signals as /start can store them: those of the deeplinks above, entries
\* that do not divide the position, an entry with a fraction, and a signal
\* whose stop loss and target lie on the wrong sides of its entry (the
\* parser returns it for 'BTC LONG / Entry: 100 / Stop Loss: 110 / Take
\* Profit: 90')
TradeSignals ==
  DeeplinkSignals \cup
  {TradeSignal(W.BTCUSDT, "LONG", Dec(90), <<Dec(110), Dec(120)>>, Dec(80), None),
   TradeSignal(W.ETHUSDT, "SHORT", Dec(60), <<Dec(50), Dec(40)>>, Dec(70), Some(Dec(20))),
   TradeSignal(W.BTCUSDT, "LONG", Dec(4096), <<Dec(5000)>>, Dec(4000), None),
   TradeSignal(W.BTCUSDT, "LONG", [m |-> 25, e |-> 1], <<Dec(3)>>, Dec(2), Some(Dec(3))),
   TradeSignal(W.ETHUSDT, "SHORT", Dec(7), <<Dec(6), Dec(5), Dec(4)>>, Dec(8), None),
   TradeSignal(W.BTCUSDT, "LONG", Dec(100), <<Dec(90)>>, Dec(110), None)}

\* what getUser returns: null, or the user's settings, as registration
\* stored them or as /setleverage and /setsize changed them (bot.ts:272-346)
StoredSettings ==
  {None} \cup
  {Some([defaultLeverage |-> Some(Dec(l)), defaultPositionSizeUsdt |-> Some(Dec(s))]) :
     l \in {ConfigDefaultLeverage, 20}, s \in {ConfigDefaultPositionSizeUsdt, 50}}

\* the options of the two calls of the bot (bot.ts:545-549, 555)
TradeOptions ==
  {LimitOptions(u) : u \in StoredSettings} \cup {MarketOptions(u) : u \in StoredSettings}

\* how a promise settles: fulfilled with a value, or rejected with an Error
Fulfilled(value) == [kind |-> "fulfilled", value |-> value]

Rejected(text) == [kind |-> "rejected", message |-> text]

\* bitunix.ts:73-92  placeOrder: the body of the HTTP answer (the body of an
\* error status too, which need not carry a code: bitunix.ts:86-89), or the
\* Error of a request that got no answer
PlaceOrderSettlements ==
  {Fulfilled([code |-> Some(0), msg |-> Some("Success"), orderId |-> Some("1001")]),
   Fulfilled([code |-> Some(20003), msg |-> Some("Insufficient balance"), orderId |-> None]),
   Fulfilled([code |-> Some(10001), msg |-> Some(""), orderId |-> None]),
   Fulfilled([code |-> None, msg |-> None, orderId |-> None]),
   Rejected("timeout of 10000ms exceeded")}

\* types.ts:48-54  TradeResult (executedAt, the clock's reading, is left out)
TradeResult(success, orderId, error, signal) ==
  [success |-> success, orderId |-> orderId, error |-> error, signal |-> signal]

\* trader.ts:78-93  the result for an answer of the exchange
ResultOfAnswer(signal, answer) ==
  IF answer.code = Some(0)
  THEN TradeResult(TRUE, answer.orderId, None, signal)
  ELSE TradeResult(FALSE, None,
                   IF IsSome(answer.msg) /\ Get(answer.msg) # "" THEN answer.msg
                   ELSE Some("Unknown error"),
                   signal)

\* an executeTrade without its catch clause: the Error goes to the caller
ErrorPassedOn(signal, text) == Rejected(text)

\* trader.ts:95-104  the catch clause: the result for an Error
ErrorCaught(signal, text) == Fulfilled(TradeResult(FALSE, None, Some(text), signal))

\* trader.ts:76-104  executeTrade after its await
executeTradeSettles(signal, settlement) ==
  IF settlement.kind = "rejected" THEN ErrorCaught(signal, settlement.message)
  ELSE Fulfilled(ResultOfAnswer(signal, settlement.value))

\* trader.ts:29-40  executeTrade(client, signal, options) is called
ExecuteTradeCalled(signal, options) ==
  /\ request = None
  /\ request' = Some([signal |-> signal, options |-> options])
  /\ submitted' = None
  /\ response' = None
  /\ returned' = None
  /\ UNCHANGED <<botVars, parserVars, registerVars>>

\* trader.ts:42-76  the order is built and handed to client.placeOrder
OrderPlaced ==
  /\ IsSome(request)
  /\ submitted = None
  /\ submitted' = Some(BuildOrder(Get(request).signal, Get(request).options))
  /\ UNCHANGED <<request, response, returned, botVars, parserVars, registerVars>>

\* bitunix.ts:78-91  the promise of placeOrder settles
PlaceOrderSettles(settlement) ==
  /\ IsSome(submitted)
  /\ response = None
  /\ response' = Some(settlement)
  /\ UNCHANGED <<request, submitted, returned, botVars, parserVars, registerVars>>

\* trader.ts:78-104  executeTrade resumes after its await and returns
ExecuteTradeReturns ==
  /\ IsSome(response)
  /\ returned' = Some(executeTradeSettles(Get(request).signal, Get(response)))
  /\ request' = None
  /\ submitted' = None
  /\ response' = None
  /\ UNCHANGED <<botVars, parserVars, registerVars>>

TraderNext ==
  \/ \E s \in TradeSignals, o \in TradeOptions : ExecuteTradeCalled(s, o)
  \/ OrderPlaced
  \/ \E s \in PlaceOrderSettlements : PlaceOrderSettles(s)
  \/ ExecuteTradeReturns

TraderSpec == BotInit /\ [][TraderNext]_vars

(***************************************************************************)
(* Properties of the orchestrator (Spec).                                  *)
(***************************************************************************)
\* the handler h reaches its await h.pc in this step
Reaches(h) == CopiesIn(h, handlers') > CopiesIn(h, handlers)

\* the handler g leaves its await g.pc in this step
Leaves(g) == CopiesIn(g, handlers') < CopiesIn(g, handlers)

\* h carries on a handler of the same callback that waited before this step
Continues(h) ==
  \E g \in Waiting : /\ Leaves(g)
                     /\ g.user = h.user /\ g.data = h.data /\ g.signal = h.signal
                     /\ g.pc # h.pc

\* h waits at the first await of its callback
AtFirstAwait(h) ==
  \/ h.data = "execute_limit" /\ h.pc = "price"
  \/ h.data = "execute_market" /\ h.pc = "answer_placing"
  \/ h.data = "cancel" /\ h.pc = "answer_cancel"

\* the entries pendingSignals holds for a requester
EntriesOf(map, userId) == {e \in map : e.key = userId}

\* C1: a place-order request is sent only by the handler of a confirm
\* (execute_limit or execute_market), and such a handler starts only on a
\* callback of a requester for whom that very signal is pending at that
\* moment; a step that is not the continuation of a confirm (a group text,
\* a /start) sends no order.
C1_OrderOnlyOnConfirm ==
  [][\A h \in BagToSet(handlers') : Reaches(h) =>
        /\ \/ Continues(h)
           \/ /\ AtFirstAwait(h)
              /\ MapGet(pendingSignals, h.user) = Some(h.signal)
              /\ h.signal.by = h.user
        /\ h.pc = "placing" =>
             /\ h.data \in {"execute_limit", "execute_market"}
             /\ Continues(h)
             /\ IsSome(h.order)]_vars

\* C1 witness: a group text has been parsed and answered, and an order of a
\* confirm is with the exchange
C1_Witness ==
  /\ links # {}
  /\ \E h \in Waiting : h.pc = "placing" /\ h.data = "execute_market"

\* C2: pendingSignals holds at most one entry for a requester, and a /start
\* with a decodable signal by a registered requester in a private chat
\* leaves exactly that signal pending for them, whatever was pending before.
C2_OnePendingLastWins ==
  /\ [](\A u \in Users : Cardinality(EntriesOf(pendingSignals, u)) <= 1)
  /\ [][\A u \in Users, s \in DeeplinkSignals :
          (/\ isUserRegistered(userStore, u)
           /\ CommandStart(u, "private", Some(DeeplinkToken[s])))
          => {e.value.sig : e \in EntriesOf(pendingSignals', u)} = {s}]_vars

\* C2 witness: a requester has a signal pending that is not the one their
\* waiting handler read: a newer signal has taken the place of that one
C2_Witness ==
  \E h \in Waiting :
    /\ IsSome(MapGet(pendingSignals, h.user))
    /\ Get(MapGet(pendingSignals, h.user)) # h.signal

\* C3: the entry of requester b changes only in a step of b: a /start of b
\* that stores b's signal, or the end of a handler of b that removes it;
\* and every handler, so every order, works on a signal stored by its own
\* requester.
C3_RequestersIndependent ==
  /\ [](/\ \A h \in Waiting : h.signal.by = h.user
        /\ \A e \in pendingSignals : e.value.by = e.key)
  /\ [][\A b \in Users :
          EntriesOf(pendingSignals', b) # EntriesOf(pendingSignals, b) =>
            \/ /\ EntriesOf(pendingSignals', b) # {}
               /\ \A e \in EntriesOf(pendingSignals', b) : e.value.by = b
               /\ handlers' = handlers
            \/ /\ EntriesOf(pendingSignals', b) = {}
               /\ \E h \in Waiting : h.user = b /\ Leaves(h)]_vars

\* C3 witness: both requesters have a signal pending while an order of
\* requester 1 is with the exchange and a handler of requester 2 waits
C3_Witness ==
  /\ \A u \in Users : IsSome(MapGet(pendingSignals, u))
  /\ \E h \in Waiting : h.user = 1 /\ h.pc = "placing"
  /\ \E h \in Waiting : h.user = 2

C5_FailOpen ==
  /\ [](\A h \in Waiting : h.pc = "answer_warning" => TruthyOpt(h.price))
  /\ [][\A g \in Waiting : Leaves(g) =>
          /\ g.pc = "price" =>
                \E h \in BagToSet(handlers') :
                  /\ Reaches(h) /\ Continues(h)
                  /\ h.pc \in {"answer_warning", "answer_placing"}
                  /\ ~TruthyOpt(h.price) => h.pc = "answer_placing"
          /\ (g.pc = "answer_placing" /\ g.data = "execute_limit"
                 /\ ~TruthyOpt(g.price)) =>
                \A h \in BagToSet(handlers') : Reaches(h) =>
                  /\ h.pc = "placing"
                  /\ Get(h.order).orderType = "LIMIT"
                  /\ Get(h.order).price = Some(toString(g.signal.sig.entryPrice))]_vars

\* C5 witness: an execute_limit whose price fetch yielded null waits to
\* answer 'Placing limit order...'
C5_Witness ==
  \E h \in Waiting :
    h.pc = "answer_placing" /\ h.data = "execute_limit" /\ h.price = None

\* C6: when the handler of a confirm whose order failed (a non-zero code, or
\* an exception) ends, its requester has no pending signal.
C6_FailureClearsPending ==
  [][\A g \in Waiting :
       (/\ Leaves(g) /\ g.pc = "edit_result"
        /\ g.result \in {"rejected", "raised"}
        /\ \A h \in BagToSet(handlers') : ~Reaches(h))
       => MapGet(pendingSignals', g.user) = None]_vars

\* C7: at most one order of a requester is with the exchange at any time.
C7_OneSubmissionInFlight ==
  \A u \in Users :
    LET inFlight == {h \in Waiting : h.user = u /\ h.pc = "placing"}
    IN  /\ Cardinality(inFlight) <= 1
        /\ \A h \in inFlight : CopiesIn(h, handlers) = 1

(***************************************************************************)
(* Properties of the parser (ParserSpec).                                  *)
(***************************************************************************)
\* C8: parseTradeSignal returns for every text, and what it returns is the
\* failure value or a signal; for a text that contains none of LONG, SHORT,
\* BUY, SELL (in any case) it is the failure value.
C8_ParseTotalNoSideFails ==
  IsSome(parsed) =>
    LET result  == Get(parsed)
        hasSide == \E i \in 1..Len(message), w \in {W.LONG, W.SHORT, W.BUY, W.SELL} :
                     LitAt(message, i, w)
    IN  /\ \/ result = None
           \/ /\ Len(result) = 1
              /\ DOMAIN Get(result) =
                   {"symbol", "side", "entryPrice", "takeProfits", "stopLoss", "leverage"}
              /\ Get(result).side \in {"LONG", "SHORT"}
        /\ ~hasSide => result = None

\* C8 witness: a text with a symbol and labelled entry, stop loss and take
\* profit but no side keyword has been parsed
C8_Witness ==
  /\ IsSome(parsed)
  /\ message = FourLines(<<"B","T","C"," ","h","o","l","d">>,
                         <<"E","n","t","r","y",":"," ","1","0","0">>,
                         <<"S","t","o","p"," ","L","o","s","s",":"," ","9","0">>,
                         <<"T","a","k","e"," ","P","r","o","f","i","t",":"," ",
                           "1","1","0","-","1","2","0">>)

\* C9: the takeProfits of every returned signal are sorted: each is <= the
\* next for LONG, >= the next for SHORT.
C9_TakeProfitsSorted ==
  (IsSome(parsed) /\ IsSome(Get(parsed))) =>
    LET signal == Get(Get(parsed))
        tps    == signal.takeProfits
    IN  \A i \in 1..(Len(tps) - 1) :
          IF signal.side = "LONG" THEN JsLe(tps[i], tps[i + 1])
                                  ELSE JsGe(tps[i], tps[i + 1])

\* C10: every returned signal has at least one take-profit, and entryPrice,
\* stopLoss and each take-profit are numbers > 0.
C10_SignalFieldsPositive ==
  (IsSome(parsed) /\ IsSome(Get(parsed))) =>
    LET signal == Get(Get(parsed))
    IN  /\ Len(signal.takeProfits) >= 1
        /\ JsGt(signal.entryPrice, Dec(0))
        /\ JsGt(signal.stopLoss, Dec(0))
        /\ \A i \in 1..Len(signal.takeProfits) : JsGt(signal.takeProfits[i], Dec(0))

\* C11: parseTradeSignal fails only on a text in which the generic tier
\* finds no symbol, no side keyword, no entry, no take-profit or no stop
\* loss: a text the generic tier parses (such as a signal that follows an
\* emoji or another word on its first line) is parsed.
C11_FailsOnlyWhenGenericFails ==
  (IsSome(parsed) /\ Get(parsed) = None) => parseTradeSignalGeneric(message) = None

\* '<SYMBOL> <SIDE> <entry> TP ...': the header, then a bare number, then
\* the take-profit label
BareEntryPattern ==
  Cat(<<HeaderPattern, Plus(Space), Grp(3, NumberToken), Plus(Space), Lit(W.tp)>>)

\* C12: a text of the form '<SYMBOL> <SIDE> <entry> TP <tp> SL <sl>', whose
\* entry is a bare number right after the side keyword, parses to a signal
\* whose entryPrice is that number.
C12_BareEntryParsed ==
  (IsSome(parsed) /\ IsSome(match(message, BareEntryPattern, 3))) =>
    /\ IsSome(Get(parsed))
    /\ Get(Get(parsed)).entryPrice =
         parseNumber(Get(Get(match(message, BareEntryPattern, 3)).caps[3]))

\* C13: each number written after a take-profit label is a take-profit of
\* the result, also when several follow one label: 'ETH SHORT @ 100 | TP:
\* 90, 80 | SL: 110' gives the take-profits 90, 80; a target written twice
\* is kept once.
C13_EveryTargetCollected ==
  (IsSome(parsed) /\ message \in {SampleTexts.multiTarget, SampleTexts.indexed}) =>
    /\ IsSome(Get(parsed))
    /\ Get(Get(parsed)).takeProfits = <<Dec(90), Dec(80)>>

\* C14: in the structured format the entry is the first number after the
\* entry label, its thousands separators removed and what follows it
\* ('/ Current Price ...') ignored, and of a leverage range 'A-Bx' the
\* lower bound A is the leverage: the third text of the parser's test
\* script parses to BTCUSDT LONG, entry 95093, stop loss 94861.68,
\* take-profits [96117.71], leverage 10.
C14_StreetsSample ==
  (IsSome(parsed) /\ message = SampleTexts.streets) =>
    Get(parsed) = Some(TradeSignal(W.BTCUSDT, "LONG", Dec(95093),
                                   <<[m |-> 9611771, e |-> 2]>>,
                                   [m |-> 9486168, e |-> 2], Some(Dec(10))))

\* C14 witness: the text of the test script has been parsed
C14_Witness == IsSome(parsed) /\ message = SampleTexts.streets

\* C15: the token of a signal the parser returned decodes to a signal with
\* the same symbol, side, entryPrice, takeProfits (same values, same
\* order) and stopLoss, and with the same leverage, absent when it was
\* absent.
C15_RoundTrip ==
  (IsSome(decoded) /\ IsSome(parsed)) =>
    /\ IsSome(Get(decoded))
    /\ LET before == Get(Get(parsed))
           after  == Get(Get(decoded))
       IN  /\ after.symbol = before.symbol
           /\ after.side = before.side
           /\ after.entryPrice = before.entryPrice
           /\ after.takeProfits = before.takeProfits
           /\ after.stopLoss = before.stopLoss
           /\ after.leverage = before.leverage

(***************************************************************************)
(* Properties of the order (Spec, TraderSpec).                             *)
(***************************************************************************)
\* C16: leverage and position size are taken from the first of: the
\* override of the call, the signal, the requester's stored default, the
\* global default; so the quantity of the order of a confirmed signal that
\* carries a leverage is computed with the signal's leverage, whatever the
\* requester's stored default is.
C16_SignalLeverageBeforeStoredDefault ==
  \A h \in Waiting :
    (IsSome(h.order) /\ TruthyOpt(h.signal.sig.leverage)) =>
      Get(h.order).qty = calculateQuantity(Get(h.order).positionSize,
                                           h.signal.sig.entryPrice,
                                           Get(h.signal.sig.leverage))

\* whole + fraction / 10^8 is a multiple of 10^-8 nearest to n / d: twice
\* its distance from n / d, in units of 10^-8 / d, is at most d
NearestOfEightDigits(whole, fraction, n, d) ==
  LET high == (fraction \div 10000) * d - (n - whole * d) * 10000
  IN  /\ fraction \in 0..99999999
      /\ high \in (0 - d)..d
      /\ 2 * Abs(high * 10000 + (fraction % 10000) * d) <= d

\* the position of the decimal point in a text
PointOf(text) == CHOOSE i \in 1..Len(text) : text[i] = "."

C18_OrderKindPriceSide ==
  IsSome(submitted) =>
    LET o == Get(submitted)
        r == Get(request)
    IN  /\ o.orderType = (IF r.options.useMarketOrder THEN "MARKET" ELSE "LIMIT")
        /\ o.orderType = "LIMIT" =>
             IsSome(o.price) /\ parseFloat(Get(o.price)) = r.signal.entryPrice
        /\ o.orderType = "MARKET" => o.price = None
        /\ o.side = (IF r.signal.side = "LONG" THEN "BUY" ELSE "SELL")

\* C18 witness: a LIMIT order for a SHORT signal has been handed over
C18_Witness ==
  /\ IsSome(submitted)
  /\ Get(submitted).orderType = "LIMIT"
  /\ Get(request).signal.side = "SHORT"

\* C19: every order, LIMIT or MARKET, carries one take-profit, the first
\* of the signal's list, and the signal's stop loss, both triggered by the
\* MARK price and filled as MARKET orders, however many take-profits the
\* signal has.
C19_FirstTargetAndStop ==
  IsSome(submitted) =>
    LET o   == Get(submitted)
        sig == Get(request).signal
    IN  /\ parseFloat(o.tpPrice) = sig.takeProfits[1]
        /\ parseFloat(o.slPrice) = sig.stopLoss
        /\ o.tpStopType = "MARK" /\ o.slStopType = "MARK"
        /\ o.tpOrderType = "MARKET" /\ o.slOrderType = "MARKET"
        /\ {f \in DOMAIN o : f \notin {"symbol", "side", "orderType", "qty", "positionSize",
                                       "leverage", "tradeSide", "effect", "price"}}
             = {"tpPrice", "tpStopType", "tpOrderType", "slPrice", "slStopType", "slOrderType"}

\* C19 witness: a MARKET order for a signal with two take-profits
C19_Witness ==
  /\ IsSome(submitted)
  /\ Get(submitted).orderType = "MARKET"
  /\ Len(Get(request).signal.takeProfits) = 2

\* C20: every order handed to the exchange has its stop loss on the
\* adverse side of the entry (below for LONG, above for SHORT) and its
\* take-profit on the favourable side.
C20_StopAndTargetOnTheirSides ==
  IsSome(submitted) =>
    LET o   == Get(submitted)
        sig == Get(request).signal
    IN  IF o.side = "BUY"
        THEN /\ JsLt(parseFloat(o.slPrice), sig.entryPrice)
             /\ JsGt(parseFloat(o.tpPrice), sig.entryPrice)
        ELSE /\ JsGt(parseFloat(o.slPrice), sig.entryPrice)
             /\ JsLt(parseFloat(o.tpPrice), sig.entryPrice)

\* C21: executeTrade never raises: whatever placeOrder settles with, it
\* returns one TradeResult that carries the signal it was called with; the
\* result has success = TRUE and the order id of the exchange exactly when
\* the exchange answered with code 0, and otherwise success = FALSE and an
\* error text: the text of the exchange or of the Error when there is one,
\* 'Unknown error' when there is none.
C21_AlwaysOneTradeResult ==
  [][(IsSome(response) /\ response' = None) =>
       LET s == Get(response)
           r == Get(returned')
           answeredZero == s.kind = "fulfilled" /\ s.value.code = Some(0)
       IN  /\ r.kind = "fulfilled"
           /\ r.value.signal = Get(request).signal
           /\ r.value.success <=> answeredZero
           /\ answeredZero =>
                /\ IsSome(r.value.orderId)
                /\ r.value.orderId = s.value.orderId
                /\ r.value.error = None
           /\ ~answeredZero =>
                /\ r.value.orderId = None
                /\ r.value.error =
                     IF s.kind = "rejected" THEN Some(s.message)
                     ELSE IF IsSome(s.value.msg) /\ Get(s.value.msg) # ""
                          THEN s.value.msg
                          ELSE Some("Unknown error")]_vars

\* C21 witness: executeTrade has returned the failure made from the Error of
\* a request that got no answer
C21_Witness ==
  /\ IsSome(returned)
  /\ Get(returned).kind = "fulfilled"
  /\ ~Get(returned).value.success
  /\ Get(returned).value.error = Some("timeout of 10000ms exceeded")

\* how far the await pc lies on the way of a handler through bot.ts:509-562
AwaitRank(pc) ==
  CASE pc = "price" -> 1
    [] pc \in {"answer_warning", "answer_placing", "answer_cancel"} -> 2
    [] pc \in {"edit_warning", "placing", "edit_cancel"} -> 3
    [] pc = "edit_result" -> 4

\* C22: the handler of one confirm sends at most one place-order request: a
\* request is sent only in the step that leaves the await of 'Placing ...',
\* every step of a handler takes it to a later await, and when the request
\* has succeeded, was rejected or has failed the handler only goes on to
\* show the result and ends, with no order sent again.
C22_AtMostOneRequestPerConfirm ==
  [][/\ \A h \in BagToSet(handlers') : (Reaches(h) /\ h.pc = "placing") =>
          /\ CopiesIn(h, handlers') = CopiesIn(h, handlers) + 1
          /\ \E g \in Waiting : /\ Leaves(g) /\ g.pc = "answer_placing"
                                /\ CopiesIn(g, handlers') = CopiesIn(g, handlers) - 1
          /\ \A k \in BagToSet(handlers') : Reaches(k) => k = h
     /\ \A g \in Waiting : Leaves(g) =>
          /\ \A h \in BagToSet(handlers') : Reaches(h) =>
               /\ Continues(h)
               /\ AwaitRank(h.pc) > AwaitRank(g.pc)
          /\ g.pc = "placing" =>
               \A h \in BagToSet(handlers') : Reaches(h) =>
                 /\ h.pc = "edit_result" /\ h.order = None
                 /\ h.result \in PlaceOrderResults
          /\ g.pc = "edit_result" => \A h \in BagToSet(handlers') : ~Reaches(h)]_vars

\* C22 witness: the request of a confirm has failed with an exception and
\* its handler is showing the result, while another confirm of the same
\* requester has its own request with the exchange
C22_Witness ==
  \E h, k \in Waiting :
    /\ h.pc = "edit_result" /\ h.result = "raised" /\ h.order = None
    /\ k.pc = "placing" /\ k.user = h.user

\* the handler g ends in this step: it leaves its await and none goes on
Ends(g) == Leaves(g) /\ \A h \in BagToSet(handlers') : ~Reaches(h)

\* C23: per requester the cycle is IDLE -> SIGNAL_PENDING -> (EXECUTING ->
\* IDLE | IDLE on cancel): when the handler of a cancel ends, the requester
\* has no pending signal, and a cancel never sends an order; when the
\* handler of a confirm that got its result ends, the requester has no
\* pending signal; a callback of a requester without a pending signal starts
\* no handler, so it sends no order and changes nothing.
C23_RequesterCycle ==
  /\ [](\A h \in Waiting : h.data = "cancel" => h.pc # "placing" /\ h.order = None)
  /\ [][/\ \A g \in Waiting :
             (Ends(g) /\ (g.data = "cancel" \/ g.pc = "edit_result"))
             => MapGet(pendingSignals', g.user) = None
        /\ \A h \in BagToSet(handlers') :
             (Reaches(h) /\ ~Continues(h)) => IsSome(MapGet(pendingSignals, h.user))
        /\ \A u \in Users :
             (MapGet(pendingSignals, u) = None /\ handlers' # handlers)
             => /\ MapGet(pendingSignals', u) = None
                /\ \A h \in BagToSet(handlers') :
                     (Reaches(h) /\ h.user = u) => Continues(h)]_vars

(***************************************************************************)
(* Properties of the parser (ParserSpec).                                  *)
(***************************************************************************)
\* entry, stop loss and take-profits as the labelled lines give them, and
\* whether one of them is missing (encoding.ts:213)
LabelledFields(lines) ==
  [entryPrice  |-> LabelledNumber(lines, EntryLinePattern, EntryValuePattern),
   stopLoss    |-> LabelledNumber(lines, StopLossLinePattern, StopLossValuePattern),
   takeProfits |-> StructuredTakeProfits(lines)]

FieldMissing(f) ==
  ~TruthyOpt(f.entryPrice) \/ f.takeProfits = <<>> \/ ~TruthyOpt(f.stopLoss)

\* the result is a signal made of the fields f alone
MadeOfLabelledFields(result, f) ==
  /\ IsSome(result)
  /\ Get(result).entryPrice = Get(f.entryPrice)
  /\ Get(result).stopLoss = Get(f.stopLoss)
  /\ Len(Get(result).takeProfits) = Len(f.takeProfits)
  /\ {Get(result).takeProfits[i] : i \in 1..Len(f.takeProfits)} =
       {f.takeProfits[i] : i \in 1..Len(f.takeProfits)}

\* C24: when the first line matches the header and the labelled lines lack
\* an entry, a stop loss or a take-profit, parseTradeSignal returns exactly
\* what parseTradeSignalGeneric returns for the whole message; when all
\* three are there, the result is made of them alone, whatever the generic
\* parser would have found.
C24_FallbackIsGenericResult ==
  (IsSome(parsed) /\ IsSome(match(HeaderLine(LinesOf(message)), HeaderPattern, 2))) =>
    IF FieldMissing(LabelledFields(LinesOf(message)))
    THEN Get(parsed) = parseTradeSignalGeneric(message)
    ELSE MadeOfLabelledFields(Get(parsed), LabelledFields(LinesOf(message)))

\* C24 witness: the header matched, the labelled lines have no stop loss
\* ('sl 110' is not a 'Stop Loss' line), and the signal returned is the one
\* of the generic parser, with the stop loss 110
C24_Witness ==
  /\ IsSome(parsed) /\ IsSome(Get(parsed))
  /\ IsSome(match(HeaderLine(LinesOf(message)), HeaderPattern, 2))
  /\ LabelledFields(LinesOf(message)).stopLoss = None
  /\ Get(parsed) = parseTradeSignalGeneric(message)
  /\ Get(Get(parsed)).stopLoss = Dec(110)

\* where the side keyword LONG or SHORT stands in the text (in any case)
SideKeywordAt(text) ==
  {i \in 1..Len(text) : LitAt(text, i, W.LONG) \/ LitAt(text, i, W.SHORT)}

\* the text with its first LONG replaced by BUY, or its first SHORT by SELL
WithSynonym(text) ==
  LET i    == CHOOSE j \in SideKeywordAt(text) : \A k \in SideKeywordAt(text) : j <= k
      long == LitAt(text, i, W.LONG)
  IN  SubSeq(text, 1, i - 1) \o (IF long THEN W.BUY ELSE W.SELL)
        \o SubSeq(text, i + (IF long THEN 4 ELSE 5), Len(text))

\* C25: BUY is equivalent to LONG and SELL to SHORT: a free-form text (one
\* that the labelled lines do not settle) with the side keyword LONG or
\* SHORT, and the same text with BUY or SELL in its place, give the same
\* result: the same symbol, side, entry, take-profits, stop loss and
\* leverage.
C25_SideSynonyms ==
  (/\ IsSome(parsed)
   /\ SideKeywordAt(message) # {}
   /\ FieldMissing(LabelledFields(LinesOf(message))))
  => parseTradeSignal(WithSynonym(message)) = Get(parsed)

\* the letters the first line of the text starts with, in upper case
LeadingToken(text) ==
  toUpperCase(SubSeq(HeaderLine(LinesOf(text)), 1,
                     RunEnd(HeaderLine(LinesOf(text)), 1, LetterSet) - 1))

\* C26: the symbol of every signal parseTradeSignal returns is in upper
\* case and ends with USDT: it is the upper-cased leading token itself when
\* that ends with USDT, and the token followed by USDT when it does not;
\* the generic parser, whenever it returns a signal for the text, gives the
\* same symbol.
C26_SymbolSuffixed ==
  (IsSome(parsed) /\ IsSome(Get(parsed))) =>
    LET symbol == Get(Get(parsed)).symbol
    IN  /\ symbol = toUpperCase(symbol)
        /\ endsWith(symbol, W.USDT)
        /\ symbol = IF endsWith(LeadingToken(message), W.USDT)
                    THEN LeadingToken(message)
                    ELSE LeadingToken(message) \o W.USDT
        /\ IsSome(parseTradeSignalGeneric(message)) =>
             Get(parseTradeSignalGeneric(message)).symbol = symbol

\* C26 witness: a signal parsed from a text whose leading token already
\* carries the suffix
C26_Witness ==
  /\ IsSome(parsed) /\ IsSome(Get(parsed))
  /\ LeadingToken(message) = W.BTCUSDT
  /\ Get(Get(parsed)).symbol = W.BTCUSDT

(***************************************************************************)
(* Properties of the risk/reward of the replies (ParserSpec).              *)
(***************************************************************************)
\* the signal the last reply was made for
SignalShown == IF IsSome(decoded) THEN Get(Get(decoded)) ELSE Get(Get(parsed))

\* x * k for a number x and a factor k
Times(x, k) == IF IsNaN(x) THEN NaN ELSE Normalise(x.m * k.m, x.e + k.e)

\* the signal with entry, stop loss and take-profits multiplied by k
ScaledSignal(signal, k) ==
  [signal EXCEPT !.entryPrice = Times(signal.entryPrice, k),
                 !.stopLoss = Times(signal.stopLoss, k),
                 !.takeProfits = [i \in 1..Len(signal.takeProfits) |->
                                    Times(signal.takeProfits[i], k)]]

\* the factors 2, 10, 0.5 and 2.5
ScaleFactors == {Dec(2), Dec(10), [m |-> 5, e |-> 1], [m |-> 25, e |-> 1]}

\* the number x in units of 10^-e
InUnits(x, e) == x.m * Pow10(e - x.e)

\* |a - b| in units of 10^-e
Distance(a, b, e) == Abs(InUnits(a, e) - InUnits(b, e))

\* the largest number of fraction digits among entry, stop loss and first target
FractionDigits(signal) ==
  CHOOSE e \in {signal.entryPrice.e, signal.stopLoss.e, signal.takeProfits[1].e} :
    \A f \in {signal.entryPrice.e, signal.stopLoss.e, signal.takeProfits[1].e} : f <= e

\* C27: the risk/reward shown for a signal is |takeProfits[0] - entry| /
\* |entry - stopLoss|; the other take-profits do not enter it, and it is the
\* same for the signal with entry, stop loss and take-profits multiplied by
\* one positive factor.
C27_RiskRewardRatio ==
  (IsSome(reply) /\ ~IsNaN(SignalShown.takeProfits[1])) =>
    LET sig == SignalShown
        rr  == Get(reply).riskReward
    IN  /\ rr = Fraction(Distance(sig.takeProfits[1], sig.entryPrice, FractionDigits(sig)),
                         Distance(sig.entryPrice, sig.stopLoss, FractionDigits(sig)))
        /\ rr = calculateRiskReward([sig EXCEPT !.takeProfits = <<sig.takeProfits[1]>>])
        /\ \A k \in ScaleFactors : rr = calculateRiskReward(ScaledSignal(sig, k))

\* C27 witness: the reply for a signal with the targets 110 and 120, entry
\* 100 and stop loss 90 shows 1.00:1
C27_Witness ==
  /\ IsSome(reply)
  /\ Len(SignalShown.takeProfits) = 2
  /\ SignalShown.takeProfits[2] = Dec(120)
  /\ Get(reply).riskReward = [n |-> 1, d |-> 1]
  /\ Get(reply).text = <<"1",".","0","0",":","1">>

\* C28: for a signal whose stop loss equals its entry calculateRiskReward
\* returns a value that is not finite (Infinity, or NaN when the first
\* target equals the entry too), and the reply that shows it is written as
\* a special case: not as the number followed by ':1', which would read
\* 'Infinity:1' or 'NaN:1'.
C28_DegenerateShownSpecially ==
  (IsSome(reply) /\ SignalShown.stopLoss = SignalShown.entryPrice) =>
    /\ Get(reply).riskReward.d = 0
    /\ Get(reply).text \notin {<<"I","n","f","i","n","i","t","y",":","1">>,
                               <<"N","a","N",":","1">>}

(***************************************************************************)
(* Properties of the decoder (ParserSpec).                                 *)
(***************************************************************************)
\* the text is a number written in digits, with at most one point
NumericText(str) ==
  /\ \E i \in 1..Len(str) : str[i] \in DigitSet
  /\ \A i \in 1..Len(str) : str[i] \in DigitSet \cup {"."}
  /\ Cardinality({i \in 1..Len(str) : str[i] = "."}) <= 1

\* the parts of a payload call for the failure value: fewer than 5 parts,
\* an empty required part, no numeric take-profit, or an entry or stop loss
\* that is not numeric
PartsInvalid(parts) ==
  \/ Len(parts) < 5
  \/ \E i \in 1..5 : parts[i] = <<>>
  \/ \A i \in 1..Len(split(parts[4], ",")) : ~NumericText(split(parts[4], ",")[i])
  \/ ~NumericText(parts[3])
  \/ ~NumericText(parts[5])

\* C29: decodeSignalFromDeeplink returns for every token, and it returns
\* the failure value when the payload has fewer than 5 parts, when symbol,
\* side, entry, take-profits or stop loss is empty, when no take-profit is
\* numeric, and when entry or stop loss is not numeric; after a failure the
\* /start shows no signal.
C29_DecodeFailures ==
  (IsSome(decoded) /\ PartsInvalid(split(fromBase64Url(Get(token)), "|")))
  => (Get(decoded) = None /\ reply = None)

(***************************************************************************)
(* Properties of the orchestrator (Spec), continued.                       *)
(***************************************************************************)
\* C30: when the handler of a confirm ends after its order was answered,
\* and the requester's pending signal is no longer the one the handler
\* executed (a newer one was stored while the order was with the exchange),
\* that newer signal is still pending afterwards.
C30_NewerSignalSurvives ==
  [][\A g \in Waiting :
       (/\ Ends(g) /\ g.pc = "edit_result"
        /\ IsSome(MapGet(pendingSignals, g.user))
        /\ Get(MapGet(pendingSignals, g.user)) # g.signal)
       => MapGet(pendingSignals', g.user) = MapGet(pendingSignals, g.user)]_vars

(***************************************************************************)
(* Properties of the order against the confirmation (TraderSpec).          *)
(***************************************************************************)
\* C31: the order of a confirm is sized with the leverage and the position
\* size that the confirmation message showed for the same signal and the
\* same stored settings: for every stored settings u whose confirm
\* (execute_limit or execute_market) makes this call of executeTrade, the
\* leverage and position size of the order are those shown for u.
C31_ShownIsUsed ==
  IsSome(submitted) =>
    \A u \in StoredSettings :
      Get(request).options \in {LimitOptions(u), MarketOptions(u)} =>
        /\ Get(submitted).leverage = ShownLeverage(Get(request).signal, u)
        /\ Get(submitted).positionSize = ShownPositionSize(u)

\* the fields of an order other than its kind and its limit price
SizingAndProtection(order) ==
  [f \in DOMAIN order \ {"orderType", "price"} |-> order[f]]

\* C32: for one signal and one stored settings the order of execute_limit
\* and the order of execute_market have the same quantity (the same
\* resolved leverage and position size) and differ only in the order type
\* and in the limit price, which the market order does not carry.
C32_LimitAndMarketSameSize ==
  IsSome(submitted) =>
    \A u \in StoredSettings :
      Get(request).options = LimitOptions(u) =>
        LET limit  == Get(submitted)
            market == BuildOrder(Get(request).signal, MarketOptions(u))
        IN  /\ limit.qty = market.qty
            /\ SizingAndProtection(limit) = SizingAndProtection(market)
            /\ limit.orderType = "LIMIT" /\ market.orderType = "MARKET"
            /\ IsSome(limit.price) /\ market.price = None

(***************************************************************************)
(* Properties of the signals that /start stores (ParserSpec).              *)
(***************************************************************************)
\* entry, stop loss and every take-profit are > 0, and the take-profits are
\* in the order of the side
TradeSignalValid(signal) ==
  /\ JsGt(signal.entryPrice, Dec(0))
  /\ JsGt(signal.stopLoss, Dec(0))
  /\ \A i \in 1..Len(signal.takeProfits) : JsGt(signal.takeProfits[i], Dec(0))
  /\ \A i \in 1..(Len(signal.takeProfits) - 1) :
       IF signal.side = "LONG"
       THEN JsLe(signal.takeProfits[i], signal.takeProfits[i + 1])
       ELSE JsGe(signal.takeProfits[i], signal.takeProfits[i + 1])

\* C33: every signal that /start decodes from its start parameter, which is
\* the signal it stores as pending and the one an order is then built from,
\* has entry, stop loss and every take-profit > 0 and its take-profits
\* sorted by side, whoever wrote the payload.
C33_StoredSignalsValid ==
  (IsSome(decoded) /\ IsSome(Get(decoded))) => TradeSignalValid(Get(Get(decoded)))

(***************************************************************************)
(* Properties of the orchestrator (Spec): registration.                    *)
(***************************************************************************)
\* C34: a pending signal is stored only by a /start in a private chat with
\* a payload that decodes, for a requester who is registered in that
\* moment; a step that posts a deeplink for a group text or that deletes a
\* registration leaves the pending map as it is; and the handler of a
\* callback starts only for a requester who is registered when the callback
\* arrives, so the confirm of an unregistered requester sends no order.
C34_OnlyRegisteredStoreAndConfirm ==
  [][/\ \A u \in Users :
          (/\ EntriesOf(pendingSignals', u) # EntriesOf(pendingSignals, u)
           /\ EntriesOf(pendingSignals', u) # {})
          => /\ IsSome(userStore[u])
             /\ \E p \in StartPayloads :
                  /\ IsSome(StartSignal[p])
                  /\ EntriesOf(pendingSignals', u) =
                       {[key |-> u, value |-> Stored(Get(StartSignal[p]), u)]}
             /\ handlers' = handlers /\ links' = links /\ userStore' = userStore
     /\ (links' # links \/ userStore' # userStore) => pendingSignals' = pendingSignals
     /\ \A h \in BagToSet(handlers') :
          (Reaches(h) /\ ~Continues(h)) => IsSome(userStore[h.user])]_vars

\* C34 witness: a requester who deleted their registration still has a
\* signal pending and no handler, while a deeplink was posted in a group
C34_Witness ==
  /\ userStore[1] = None
  /\ IsSome(MapGet(pendingSignals, 1))
  /\ \A h \in Waiting : h.user # 1
  /\ links # {}

(***************************************************************************)
(* C35: credentials are saved for a requester only by the handler of a     *)
(* secret message of at least 10 characters whose registration state holds *)
(* the key of a key message of at least 10 characters, a state that only   *)
(* /register in a private chat by an unregistered requester begins; the    *)
(* saving step removes the requester's registration state, a message       *)
(* shorter than 10 characters changes neither the registration states nor  *)
(* the store, and no /register of a registered requester sets a state.     *)
(***************************************************************************)
TextLeaves(h) == h \in BagToSet(texts) /\ texts' = texts (-) SetToBag({h})

C35_RegistrationOrder ==
  [][/\ \A u \in Users :
          /\ (userStore'[u] # userStore[u] /\ IsSome(userStore'[u]))
             => /\ registrationStates'[u] = None
                /\ \E h \in BagToSet(texts) :
                     /\ TextLeaves(h) /\ h.user = u
                     /\ h.regState.step = "awaiting_api_secret"
                     /\ IsSome(h.regState.apiKey)
                     /\ Len(h.text) >= 10
                     /\ userStore'[u] = Some(Registered(Get(h.regState.apiKey), trim(h.text)))
          /\ (/\ registrationStates'[u] # registrationStates[u]
              /\ IsSome(registrationStates'[u])
              /\ Get(registrationStates'[u]).step = "awaiting_api_secret")
             => \E h \in BagToSet(texts) :
                  /\ TextLeaves(h) /\ h.user = u
                  /\ h.regState = AwaitingApiKey
                  /\ Len(h.text) >= 10
                  /\ registrationStates'[u] = Some(AwaitingApiSecret(trim(h.text)))
          /\ (/\ registrationStates'[u] # registrationStates[u]
              /\ IsSome(registrationStates'[u])
              /\ Get(registrationStates'[u]).step = "awaiting_api_key")
             => /\ ~IsSome(userStore[u])
                /\ CommandRegister(u, "private")
     /\ \A h \in BagToSet(texts') :
          CopiesIn(h, texts') > CopiesIn(h, texts)
          => registrationStates[h.user] = Some(h.regState)
     /\ \A h \in BagToSet(texts) :
          (TextLeaves(h) /\ Len(h.text) < 10)
          => registrationStates' = registrationStates /\ userStore' = userStore]_vars

C35_Witness ==
  /\ userStore[1] = Some(Registered(<<"k","e","y","0","1","2","3","4","5","6">>,
                                    <<"s","e","c","r","e","t","0","1","2","3","4">>))
  /\ registrationStates[1] = None

====
